---- MODULE Spec2Model ----
(***************************************************************************)
(* Model of the mycache root package: the LRU-K store (lru_k.go), the      *)
(* byte-accounted shard (cache.go), the HeavyKeeper hot-key detector       *)
(* (cache.go), singleflightGroup.Do (unnamed/part_002) and the Group get /  *)
(* load / populateCache / sets / Deletes paths (unnamed/part_001,          *)
(* batch.go).                                                              *)
(*                                                                         *)
(* Values are byte sequences (ByteView), keys are strings, an error is a   *)
(* string and "" stands for a nil error.  kEntry.accessTime and            *)
(* LRUKCache.accessTime are written by the code but never read by any      *)
(* decision, so the store is modelled without them.                        *)
(***************************************************************************)
EXTENDS Integers, Sequences, FiniteSets, TLC

\* ------------------------------------------------------------------ bounds
Procs == {"p1", "p2"}      \* the goroutines that call into the group
MaxGets == 2               \* Gets started in a run with concurrent callers
MaxSets == 1               \* Sets items started in a run
MaxDels == 1               \* Deletes keys started in a run
MaxOps == 2                \* operations of all kinds started in a run of Spec
MaxCalls == 4              \* direct calls on a shard in a run of SpecShard
MaxSeqGets == 3            \* Gets in a run of SpecSeq
MaxOffOps == 3             \* Gets and Sets items in a run of SpecOff
MaxStoreCalls == 6         \* calls on the store in a run of SpecStore
MaxScanCalls == 9          \* calls on the store in a run of SpecScan
MaxSetCalls == 3           \* calls of HTTPPool.Set in a run of SpecRing
MaxHKAdds == 3             \* direct calls of HeavyKeeper.Add in a run of SpecHK

\* ------------------------------------------------------------- data domain
Keys == {"a", "cf"}
EmptyKey == ""
KeyLen(k) == IF k = "a" THEN 1 ELSE IF k = "cf" THEN 2 ELSE 0
KeyBytes(k) == IF k = "a" THEN <<97>> ELSE IF k = "cf" THEN <<99, 102>> ELSE <<>>
\* the origin behind the Getter: deterministic in the key
Store(k) == IF k = "a" THEN <<7>> ELSE <<8, 8>>
SetValues == {<<7>>, <<9, 9, 9>>}
NilView == <<>>
NoErr == ""
GetterErrs == {"not found", "context canceled"}
PeerErrs == {"peer down"}
ErrKeyRequired == "key is required"

\* ---------------------------------------------------------------- ByteView
ViewLen(v) == Len(v)
ByteSlice(v) == [i \in 1..Len(v) |-> v[i]]
cloneBytes(b) == [i \in 1..Len(b) |-> b[i]]

\* =========================================================================
\* LRU-K store (lru_k.go).  A list is a sequence of entries, front first.
\* Operations return the new store together with the entries handed to
\* OnEvicted, in call order.
\* =========================================================================
kEntry(k, v) == [key |-> k, value |-> v]

ListKeys(l) == {l[i].key : i \in 1..Len(l)}
ListRemove(l, k) == SelectSeq(l, LAMBDA e : e.key # k)
ListFind(l, k) == l[CHOOSE i \in 1..Len(l) : l[i].key = k]
ListSetValue(l, k, v) == [i \in 1..Len(l) |-> IF l[i].key = k THEN kEntry(k, v) ELSE l[i]]
MoveToFront(l, k) == <<ListFind(l, k)>> \o ListRemove(l, k)
PushFront(l, e) == <<e>> \o l
Back(l) == l[Len(l)]

\* the keys a store may be given: those of the group and one more
StoreKeys == Keys \cup {"b"}
\* and the keys of a scan: many keys, each added once
ScanKeys == StoreKeys \cup {"d", "e", "f"}

NewLRUK(maxEntries, k) ==
    [maxEntries |-> maxEntries,
     k |-> IF k < 1 THEN 2 ELSE k,
     cacheList |-> <<>>, cache |-> {},
     historyList |-> <<>>, history |-> {},
     accessCount |-> [x \in ScanKeys |-> 0]]

LRULen(c) == Len(c.cacheList) + Len(c.historyList)

\* removeElement(l, e, m) on the resident tier / on the history tier
removeCacheElement(c, k) ==
    [lru |-> [c EXCEPT !.cacheList = ListRemove(@, k), !.cache = @ \ {k}],
     ev |-> <<ListFind(c.cacheList, k)>>]

removeHistoryElement(c, k) ==
    [lru |-> [c EXCEPT !.historyList = ListRemove(@, k), !.history = @ \ {k}],
     ev |-> <<ListFind(c.historyList, k)>>]

\* RemoveOldest taking the back of Resident before it looks at History
RemoveOldestResidentFirst(c) ==
    IF Len(c.cacheList) > 0
    THEN removeCacheElement(c, Back(c.cacheList).key)
    ELSE IF Len(c.historyList) > 0
         THEN removeHistoryElement(c, Back(c.historyList).key)
         ELSE [lru |-> c, ev |-> <<>>]

RemoveOldest(c) ==
    IF Len(c.historyList) > 0
    THEN removeHistoryElement(c, Back(c.historyList).key)
    ELSE IF Len(c.cacheList) > 0
         THEN removeCacheElement(c, Back(c.cacheList).key)
         ELSE [lru |-> c, ev |-> <<>>]

\* a plain LRU: a new key goes straight to the front of Resident
addToResident(c, k, v) ==
    [c EXCEPT !.cacheList = PushFront(@, kEntry(k, v)),
              !.cache = @ \cup {k},
              !.accessCount[k] = 1]

addToHistory(c, k, v) ==
    [c EXCEPT !.historyList = PushFront(@, kEntry(k, v)),
              !.history = @ \cup {k},
              !.accessCount[k] = 1]

\* promoteToCache taking the element off historyList but not out of the
\* history map
promoteKeepIndex(c, k, v) ==
    [c EXCEPT !.historyList = ListRemove(@, k),
              !.cacheList = PushFront(@, kEntry(k, v)), !.cache = @ \cup {k}]

promoteToCache(c, k, v) ==
    LET h == IF k \in c.history
             THEN [c EXCEPT !.historyList = ListRemove(@, k), !.history = @ \ {k}]
             ELSE c
    IN [h EXCEPT !.cacheList = PushFront(@, kEntry(k, v)), !.cache = @ \cup {k}]

RECURSIVE trimHistory(_, _, _)
trimHistory(c, maxHistorySize, ev) ==
    IF Len(c.historyList) > maxHistorySize
    THEN LET r == removeHistoryElement(c, Back(c.historyList).key)
         IN trimHistory(r.lru, maxHistorySize, ev \o r.ev)
    ELSE [lru |-> c, ev |-> ev]

RECURSIVE trimTotal(_, _)
trimTotal(c, ev) ==
    IF LRULen(c) > c.maxEntries
    THEN LET r == RemoveOldest(c) IN trimTotal(r.lru, ev \o r.ev)
    ELSE [lru |-> c, ev |-> ev]

\* enforceMaxEntries limiting the total only, not the size of History
enforceTotalOnly(c) ==
    IF c.maxEntries <= 0 THEN [lru |-> c, ev |-> <<>>] ELSE trimTotal(c, <<>>)

enforceMaxEntries(c) ==
    IF c.maxEntries <= 0
    THEN [lru |-> c, ev |-> <<>>]
    ELSE LET half == c.maxEntries \div 2
             maxHistorySize == IF half < 1 THEN 1 ELSE half
             r == trimHistory(c, maxHistorySize, <<>>)
         IN trimTotal(r.lru, r.ev)

LRUAdd(c, k, v) ==
    IF k \in c.cache
    THEN [lru |-> [c EXCEPT !.cacheList = ListSetValue(MoveToFront(@, k), k, v)],
          ev |-> <<>>]
    ELSE IF k \in c.history
    THEN LET c1 == [c EXCEPT !.historyList = ListSetValue(@, k, v),
                             !.accessCount[k] = @ + 1]
         IN [lru |-> IF c1.accessCount[k] >= c1.k
                     THEN promoteToCache(c1, k, v)
                     ELSE [c1 EXCEPT !.historyList = MoveToFront(@, k)],
             ev |-> <<>>]
    ELSE enforceMaxEntries(addToHistory(c, k, v))

\* Get on a store whose History keeps the keys only, not their values
LRUGetKeysOnly(c, k) ==
    IF k \in c.cache
    THEN [lru |-> [c EXCEPT !.cacheList = MoveToFront(@, k)],
          value |-> ListFind(c.cacheList, k).value, ok |-> TRUE]
    ELSE IF k \in c.history
    THEN LET c1 == [c EXCEPT !.accessCount[k] = @ + 1]
         IN [lru |-> IF c1.accessCount[k] >= c1.k
                     THEN promoteToCache(c1, k, NilView)
                     ELSE [c1 EXCEPT !.historyList = MoveToFront(@, k)],
             value |-> NilView, ok |-> TRUE]
    ELSE [lru |-> c, value |-> NilView, ok |-> FALSE]

\* Get counting an access for a key that is not in the store
LRUGetCountMiss(c, k) ==
    IF k \in c.cache
    THEN [lru |-> [c EXCEPT !.cacheList = MoveToFront(@, k)],
          value |-> ListFind(c.cacheList, k).value, ok |-> TRUE]
    ELSE IF k \in c.history
    THEN LET v == ListFind(c.historyList, k).value
             c1 == [c EXCEPT !.accessCount[k] = @ + 1]
         IN [lru |-> IF c1.accessCount[k] >= c1.k
                     THEN promoteToCache(c1, k, v)
                     ELSE [c1 EXCEPT !.historyList = MoveToFront(@, k)],
             value |-> v, ok |-> TRUE]
    ELSE [lru |-> [c EXCEPT !.accessCount[k] = @ + 1], value |-> NilView, ok |-> FALSE]

\* Get returns the store, the value and the hit flag
LRUGet(c, k) ==
    IF k \in c.cache
    THEN [lru |-> [c EXCEPT !.cacheList = MoveToFront(@, k)],
          value |-> ListFind(c.cacheList, k).value, ok |-> TRUE]
    ELSE IF k \in c.history
    THEN LET v == ListFind(c.historyList, k).value
             c1 == [c EXCEPT !.accessCount[k] = @ + 1]
         IN [lru |-> IF c1.accessCount[k] >= c1.k
                     THEN promoteToCache(c1, k, v)
                     ELSE [c1 EXCEPT !.historyList = MoveToFront(@, k)],
             value |-> v, ok |-> TRUE]
    ELSE [lru |-> c, value |-> NilView, ok |-> FALSE]

\* Remove dropping the entry without the OnEvicted callback
LRURemoveSilent(c, k) ==
    [lru |-> [c EXCEPT !.cacheList = SelectSeq(@, LAMBDA e : e.key # k), !.cache = @ \ {k},
                       !.historyList = SelectSeq(@, LAMBDA e : e.key # k),
                       !.history = @ \ {k}, !.accessCount[k] = 0],
     ev |-> <<>>]

LRURemove(c, k) ==
    LET r1 == IF k \in c.cache THEN removeCacheElement(c, k)
              ELSE [lru |-> c, ev |-> <<>>]
        r2 == IF k \in r1.lru.history THEN removeHistoryElement(r1.lru, k)
              ELSE [lru |-> r1.lru, ev |-> <<>>]
    IN [lru |-> [r2.lru EXCEPT !.accessCount[k] = 0], ev |-> r1.ev \o r2.ev]

\* the orders in which a range over a map may visit the keys ks
Orders(ks) ==
    {s \in [1..Cardinality(ks) -> ks] : \A i, j \in 1..Cardinality(ks) : s[i] = s[j] => i = j}

\* Clear: OnEvicted for every element of the cache map, then of the history
\* map, in the orders oc and oh of the two range loops; then all fields but
\* maxEntries and k are made anew
LRUClear(c, oc, oh) ==
    [lru |-> [c EXCEPT !.cacheList = <<>>, !.cache = {},
                       !.historyList = <<>>, !.history = {},
                       !.accessCount = [x \in ScanKeys |-> 0]],
     ev |-> [i \in 1..Len(oc) |-> ListFind(c.cacheList, oc[i])]
            \o [i \in 1..Len(oh) |-> ListFind(c.historyList, oh[i])]]

\* =========================================================================
\* cache: the byte-accounted shard (cache.go).  hasLRU is "c.lru != nil".
\* Every operation below runs under c.mu and is one atomic step.
\* =========================================================================
EntrySize(e) == KeyLen(e.key) + ViewLen(e.value)

RECURSIVE SumSizes(_)
SumSizes(l) == IF l = <<>> THEN 0 ELSE EntrySize(Head(l)) + SumSizes(Tail(l))

NewCache == [hasLRU |-> FALSE, lru |-> NewLRUK(0, 2),
             nbytes |-> 0, nhit |-> 0, nget |-> 0, nevict |-> 0]

\* the OnEvicted closure installed by add: one call per evicted entry
OnEvicted(c, ev) == [c EXCEPT !.nbytes = @ - SumSizes(ev), !.nevict = @ + Len(ev)]

cacheAdd(c, k, v) ==
    LET c0 == IF c.hasLRU THEN c ELSE [c EXCEPT !.hasLRU = TRUE, !.lru = NewLRUK(0, 2)]
        r == LRUAdd(c0.lru, k, v)
        c1 == OnEvicted([c0 EXCEPT !.lru = r.lru], r.ev)
    IN [c1 EXCEPT !.nbytes = @ + KeyLen(k) + ViewLen(v)]

cacheGet(c, k) ==
    LET c0 == [c EXCEPT !.nget = @ + 1]
    IN IF ~c.hasLRU
       THEN [cache |-> c0, value |-> NilView, ok |-> FALSE]
       ELSE LET r == LRUGet(c.lru, k)
            IN IF ~r.ok
               THEN [cache |-> c0, value |-> NilView, ok |-> FALSE]
               ELSE [cache |-> [c0 EXCEPT !.lru = r.lru, !.nhit = @ + 1],
                     value |-> r.value, ok |-> TRUE]

cacheRemove(c, k) ==
    IF c.hasLRU
    THEN LET r == LRURemove(c.lru, k) IN OnEvicted([c EXCEPT !.lru = r.lru], r.ev)
    ELSE c

cacheRemoveOldest(c) ==
    IF c.hasLRU
    THEN LET r == RemoveOldest(c.lru) IN OnEvicted([c EXCEPT !.lru = r.lru], r.ev)
    ELSE c

cacheBytesOf(c) == c.nbytes
cacheItems(c) == IF c.hasLRU THEN LRULen(c.lru) ELSE 0
CacheKeys(c) == ListKeys(c.lru.cacheList) \cup ListKeys(c.lru.historyList)
\* the bytes actually held: sum of len(key)+value.Len() over both tiers
HeldBytes(c) == SumSizes(c.lru.cacheList) + SumSizes(c.lru.historyList)

\* =========================================================================
\* HeavyKeeper (cache.go).  A uint32 is the pair <<high 16 bits, low 16
\* bits>>.  A counter (float64) is an exact rational, stored as its
\* numerator over the denominator CountUnit = 20^MaxDecay, so that each of
\* the at most MaxDecay multiplications by decayFactor = 19/20 is exact.
\* Cells the code never wrote are absent from the map and read as zero.
\* =========================================================================
MaxDecay == 1
hkWidth == 1000
hkDepth == 4
hkTopK == 100
hkMinCount == 10
DecayNum == 19
DecayDen == 20
\* values rand.Uint32() may give a row seed: with 1 the keys "a" and "cf"
\* fall in different buckets of the row, with 8209 in the same bucket
SeedChoices == {1, 8209}

RECURSIVE Pow(_, _)
Pow(b, e) == IF e = 0 THEN 1 ELSE b * Pow(b, e - 1)
CountUnit == Pow(DecayDen, MaxDecay)

RECURSIVE Xor(_, _, _)
Xor(x, y, bits) ==
    IF bits = 0 THEN 0
    ELSE (((x % 2) + (y % 2)) % 2) + 2 * Xor(x \div 2, y \div 2, bits - 1)

\* one round of FNV-1a: h ^= b; h *= 16777619 (= 2^24 + 403), modulo 2^32
fnvStep(h, b) ==
    LET lo == (h[2] \div 256) * 256 + Xor(h[2] % 256, b, 8)
        hi == h[1]
        t == lo * 403
    IN <<(hi * 403 + (t \div 65536) + (lo % 256) * 256) % 65536, t % 65536>>

RECURSIVE fnvWrite(_, _)
fnvWrite(h, bs) == IF bs = <<>> THEN h ELSE fnvWrite(fnvStep(h, Head(bs)), Tail(bs))

\* fnv.New32a(): offset basis 2166136261 = 0x811C9DC5
fnvOffset == <<33052, 40389>>
seedBytes(sd) ==
    <<sd % 256, (sd \div 256) % 256, (sd \div 65536) % 256, (sd \div 16777216) % 256>>

\* getFingerprint(key) and hash(key, i) are pure in the key and the row seed;
\* they are computed once for the keys and seeds of the model
fnvKey(k) == fnvWrite(fnvOffset, KeyBytes(k))
fnvKeySeed(k, sd) == fnvWrite(fnvWrite(fnvOffset, KeyBytes(k)), seedBytes(sd))
Sum32Mod(h, w) == ((h[1] % w) * (65536 % w) + h[2]) % w
FingerprintTable == [k \in Keys |-> fnvKey(k)]
HashTable == [sd \in SeedChoices |-> [k \in Keys |-> Sum32Mod(fnvKeySeed(k, sd), hkWidth)]]

getFingerprint(k) == FingerprintTable[k]
ZeroFp == <<0, 0>>

\* hk.hash(key, i): Sum32() % width
hkHash(hk, k, i) == HashTable[hk.seeds[i]][k]

Rows == 1..hkDepth
CellFp(hk, i, pos) ==
    IF <<i, pos>> \in DOMAIN hk.fingerprint THEN hk.fingerprint[<<i, pos>>] ELSE ZeroFp
CellCount(hk, i, pos) == IF <<i, pos>> \in DOMAIN hk.counters THEN hk.counters[<<i, pos>>] ELSE 0

\* ---- container/heap on MinHeap; position p of the sequence is index p-1
HeapItem(k, count, index) == [key |-> k, count |-> count, index |-> index]
HeapLess(h, i, j) == h[i + 1].count < h[j + 1].count
HeapSwap(h, i, j) ==
    [p \in 1..Len(h) |->
        IF p = i + 1 THEN [h[j + 1] EXCEPT !.index = i]
        ELSE IF p = j + 1 THEN [h[i + 1] EXCEPT !.index = j]
        ELSE h[p]]

RECURSIVE heapUp(_, _)
heapUp(h, j) ==
    LET i == IF j >= 1 THEN (j - 1) \div 2 ELSE 0
    IN IF i = j \/ ~HeapLess(h, j, i) THEN h ELSE heapUp(HeapSwap(h, i, j), i)

\* down returns the heap and the index where the element came to rest
RECURSIVE heapDown(_, _, _)
heapDown(h, i, n) ==
    LET j1 == 2 * i + 1
    IN IF j1 >= n THEN [h |-> h, i |-> i]
       ELSE LET j == IF j1 + 1 < n /\ HeapLess(h, j1 + 1, j1) THEN j1 + 1 ELSE j1
            IN IF ~HeapLess(h, j, i) THEN [h |-> h, i |-> i]
               ELSE heapDown(HeapSwap(h, i, j), j, n)

heapPush(h, item) == heapUp(Append(h, [item EXCEPT !.index = Len(h)]), Len(h))

heapFix(h, i) ==
    LET d == heapDown(h, i, Len(h))
    IN IF d.i > i THEN d.h ELSE heapUp(h, i)

\* heap.Pop: the heap without its root, and the root
heapPop(h) ==
    LET n == Len(h) - 1
        d == heapDown(HeapSwap(h, 0, n), 0, n).h
    IN [h |-> SubSeq(d, 1, n), item |-> [d[n + 1] EXCEPT !.index = -1]]

RECURSIVE heapInitFrom(_, _)
heapInitFrom(h, i) ==
    IF i < 0 THEN h ELSE heapInitFrom(heapDown(h, i, Len(h)).h, i - 1)
heapInit(h) == heapInitFrom(h, Len(h) \div 2 - 1)

HeapFind(h, k) == h[CHOOSE p \in 1..Len(h) : h[p].key = k]

NewHeavyKeeper(seeds) ==
    [seeds |-> seeds,
     counters |-> <<>>, fingerprint |-> <<>>,
     hotKeys |-> <<>>, hotKeyMap |-> {},
     decays |-> 0]

updateHotKeys(hk, k, count) ==
    IF count < hkMinCount * CountUnit THEN hk
    ELSE IF k \in hk.hotKeyMap
    THEN LET item == HeapFind(hk.hotKeys, k)
             h1 == [p \in 1..Len(hk.hotKeys) |->
                       IF hk.hotKeys[p].key = k THEN [item EXCEPT !.count = count]
                       ELSE hk.hotKeys[p]]
         IN [hk EXCEPT !.hotKeys = heapFix(h1, item.index)]
    ELSE IF Len(hk.hotKeys) < hkTopK
    THEN [hk EXCEPT !.hotKeys = heapPush(@, HeapItem(k, count, 0)),
                    !.hotKeyMap = @ \cup {k}]
    ELSE IF count > hk.hotKeys[1].count
    THEN LET r == heapPop(hk.hotKeys)
         IN [hk EXCEPT !.hotKeys = heapPush(r.h, HeapItem(k, count, 0)),
                       !.hotKeyMap = (@ \ {r.item.key}) \cup {k}]
    ELSE hk

\* the "no matching row" estimate math.MaxFloat64
MaxFloat == 2000000000

\* one iteration of Add's loop: what row i leaves in the bucket of k;
\* coin[i] is "rand.Float64() < prob" in row i
hkAddRow(hk, k, coin, i) ==
    LET fp == getFingerprint(k)
        pos == hkHash(hk, k, i)
        f == CellFp(hk, i, pos)
        c == CellCount(hk, i, pos)
    IN IF f = fp \/ f = ZeroFp
       THEN [fp |-> fp, count |-> c + CountUnit]
       ELSE IF coin[i] \/ c = 0
       THEN IF c - CountUnit <= 0
            THEN [fp |-> fp, count |-> CountUnit]
            ELSE [fp |-> f, count |-> c - CountUnit]
       ELSE [fp |-> f, count |-> c]

\* Add's loop over the rows (each row touches only its own bucket), and the
\* minimum counter over the rows that hold the fingerprint of k afterwards
hkAddRows(hk, k, coin) ==
    LET touched == {<<i, hkHash(hk, k, i)>> : i \in Rows}
        cells == [c \in touched |-> hkAddRow(hk, k, coin, c[1])]
        matching == {c \in touched : cells[c].fp = getFingerprint(k)}
    IN [hk |-> [hk EXCEPT
                  !.fingerprint = [c \in touched |-> cells[c].fp] @@ @,
                  !.counters = [c \in touched |-> cells[c].count] @@ @],
        minCount |-> IF matching = {} THEN MaxFloat
                     ELSE cells[CHOOSE c \in matching :
                                    \A d \in matching : cells[c].count <= cells[d].count].count]

hkAdd(hk, k, coin) ==
    LET r == hkAddRows(hk, k, coin)
    IN updateHotKeys(r.hk, k, r.minCount)

IsHot(hk, k) == k \in hk.hotKeyMap

\* getCount: the estimate without taking the lock
getCount(hk, k) ==
    LET fp == getFingerprint(k)
        matching == {i \in Rows : CellFp(hk, i, hkHash(hk, k, i)) = fp}
    IN IF matching = {} THEN 0
       ELSE LET i == CHOOSE x \in matching :
                        \A y \in matching :
                            CellCount(hk, x, hkHash(hk, k, x)) <= CellCount(hk, y, hkHash(hk, k, y))
            IN CellCount(hk, i, hkHash(hk, k, i))

RECURSIVE decayKeep(_, _, _)
decayKeep(hk, old, acc) ==
    IF old = <<>> THEN acc
    ELSE LET newCount == getCount(hk, Head(old).key)
         IN decayKeep(hk, Tail(old),
                      IF newCount >= hkMinCount * CountUnit
                      THEN Append(acc, HeapItem(Head(old).key, newCount, 0))
                      ELSE acc)

\* decay: one pass of the ticker goroutine, under hk.mu
hkDecay(hk) ==
    LET scaled == [c \in DOMAIN hk.counters |-> (hk.counters[c] * DecayNum) \div DecayDen]
        cnt == [c \in DOMAIN scaled |-> IF scaled[c] < CountUnit THEN 0 ELSE scaled[c]]
        fps == [c \in DOMAIN hk.fingerprint |->
                   IF c \in DOMAIN scaled /\ scaled[c] < CountUnit THEN ZeroFp
                   ELSE hk.fingerprint[c]]
        hk1 == [hk EXCEPT !.counters = cnt, !.fingerprint = fps]
        newHeap == decayKeep(hk1, hk.hotKeys, <<>>)
    IN [hk1 EXCEPT !.hotKeys = heapInit(newHeap),
                   !.hotKeyMap = {newHeap[p].key : p \in 1..Len(newHeap)},
                   !.decays = @ + 1]

\* =========================================================================
\* The consistent-hash ring (package consistenthash, not among the sources:
\* after section 4.5 of the specification) and HTTPPool, NoPeers
\* (unnamed/part_001).  A string is the sequence of its bytes.
\* =========================================================================
SelfId == "s"
PeerIds == {SelfId, "p", "q"}
PeerBytes(x) == IF x = "s" THEN <<115>> ELSE IF x = "p" THEN <<112>> ELSE <<113>>
RingKeys == Keys \cup {"b", "d"}
RingKeyBytes(k) == IF k \in Keys THEN KeyBytes(k) ELSE IF k = "b" THEN <<98>> ELSE <<100>>

\* strconv.Itoa(i) for i < 10
Itoa(i) == <<48 + i>>

\* the pluggable hash: the sum of the bytes modulo 8, or a polynomial hash
HashFns == {"sum8", "poly"}
RECURSIVE SumBytes(_)
SumBytes(b) == IF b = <<>> THEN 0 ELSE Head(b) + SumBytes(Tail(b))
RECURSIVE PolyBytes(_, _)
PolyBytes(h, b) == IF b = <<>> THEN h ELSE PolyBytes((h * 31 + Head(b)) % 65536, Tail(b))
RingHash(fn, b) == IF fn = "sum8" THEN SumBytes(b) % 8 ELSE PolyBytes(7, b)

\* the sorted ring with e put after every entry whose hash is not greater
\* (ties keep the order of insertion)
RECURSIVE RingInsert(_, _)
RingInsert(ring, e) ==
    IF ring = <<>> THEN <<e>>
    ELSE IF Head(ring).hash <= e.hash THEN <<Head(ring)>> \o RingInsert(Tail(ring), e)
    ELSE <<e>> \o ring

\* Add(peers...): R virtual nodes for each peer, hashed from i + peer-id
RECURSIVE RingAddNodes(_, _, _, _, _)
RingAddNodes(ring, fn, replicas, peer, i) ==
    IF i >= replicas THEN ring
    ELSE RingAddNodes(RingInsert(ring, [hash |-> RingHash(fn, Itoa(i) \o PeerBytes(peer)),
                                        peer |-> peer]),
                      fn, replicas, peer, i + 1)

RECURSIVE RingAdd(_, _, _, _)
RingAdd(ring, fn, replicas, peers) ==
    IF peers = <<>> THEN ring
    ELSE RingAdd(RingAddNodes(ring, fn, replicas, Head(peers), 0), fn, replicas, Tail(peers))

RingIsEmpty(ring) == Len(ring) = 0

\* Get(key): the entry with the smallest hash >= the hash of the key, the
\* first entry when there is none
RingGet(ring, fn, k) ==
    LET h == RingHash(fn, RingKeyBytes(k))
        at == {i \in 1..Len(ring) : ring[i].hash >= h}
    IN IF at = {} THEN ring[1].peer
       ELSE ring[CHOOSE i \in at : \A j \in at : i <= j].peer

\* NewHTTPPoolOpts: an empty ring and no getters.  kind tells the PeerPicker
\* apart: "http" an HTTPPool, "nopeers" NoPeers{}, "any" some other
\* implementation of the interface, whose PickPeer may answer either way
NewHTTPPoolOpts(kind, replicas, fn) ==
    [kind |-> kind, self |-> SelfId, replicas |-> replicas, hashFn |-> fn,
     peers |-> <<>>, httpGetters |-> {}]

\* HTTPPool.Set keeping the old ring and adding the peers to it
PoolSetKeepRing(p, peers) ==
    [p EXCEPT !.peers = RingAdd(p.peers, p.hashFn, p.replicas, peers),
              !.httpGetters = {peers[i] : i \in 1..Len(peers)}]

\* HTTPPool.Set: a new ring with the peers, a new getter for each peer
PoolSet(p, peers) ==
    [p EXCEPT !.peers = RingAdd(<<>>, p.hashFn, p.replicas, peers),
              !.httpGetters = {peers[i] : i \in 1..Len(peers)}]

\* HTTPPool.PickPeer answering from the ring without the IsEmpty test; Get
\* on an empty ring has no entry to return
PoolPickPeerUnchecked(p, k) ==
    IF RingIsEmpty(p.peers) THEN [peer |-> "", ok |-> TRUE]
    ELSE LET peer == RingGet(p.peers, p.hashFn, k)
         IN IF peer # p.self THEN [peer |-> peer, ok |-> TRUE]
            ELSE [peer |-> "", ok |-> FALSE]

\* HTTPPool.PickPeer: (nil, false) on an empty ring and for the keys of self
PoolPickPeer(p, k) ==
    IF RingIsEmpty(p.peers) THEN [peer |-> "", ok |-> FALSE]
    ELSE LET peer == RingGet(p.peers, p.hashFn, k)
         IN IF peer # p.self THEN [peer |-> peer, ok |-> TRUE]
            ELSE [peer |-> "", ok |-> FALSE]

\* the answers g.peers.PickPeer(key) may give
PickPeerOk(p, k) ==
    IF p.kind = "http" THEN {PoolPickPeer(p, k).ok}
    ELSE IF p.kind = "nopeers" THEN {FALSE}
    ELSE {TRUE, FALSE}

\* the key-to-peer mapping of the pool's ring
RingMapping(p) == [k \in RingKeys |-> RingGet(p.peers, p.hashFn, k)]

\* =========================================================================
\* Group (unnamed/part_001, batch.go) and singleflightGroup (unnamed/part_002)
\* =========================================================================
VARIABLES
    cacheBytes,    \* Group.cacheBytes
    hasHot,        \* hotCache != nil and hotDetector != nil (0 < hotRatio < 1)
    hasPeers,      \* Group.peers != nil (RegisterPeers was called)
    mainCache,     \* Group.mainCache
    hotCache,      \* *Group.hotCache
    hotDetector,   \* *Group.hotDetector
    sfm,           \* singleflightGroup.m: key -> call id, 0 when absent
    calls,         \* the call objects ever allocated by Do, by id
    stats,         \* Group.stats
    pc,            \* position of each goroutine
    loc,           \* locals of each goroutine
    hist,          \* what each Get that has returned gave its caller
    nGets, nSets, nDels,   \* operations started so far
    getterCalls,   \* the Getter.Get invocations so far: flight, key and error returned
    nCalls,        \* calls made on a shard directly, outside any Group operation
    peerCalls,     \* the peer.Get calls so far: flight, key and error returned
    store,         \* an LRUKCache made by NewLRUK and called directly
    evicted,       \* the entries the last call on store passed to its OnEvicted
    hkAdds,        \* key -> the calls of hotDetector.Add(key) made by the warm-up
                   \* and by the direct callers of SpecHK
    pool,          \* the PeerPicker behind Group.peers
    ringLog,       \* the peers of the last HTTPPool.Set, and the peers and the
                   \* key-to-peer mapping of the first one
    batch,         \* the gets call in progress: its keys, goroutines and result maps
    registry       \* the package's groups map, and the last call of newGroup or
                   \* GetGroup with its outcome

\* ---- the registry of groups -----------------------------------------------
GroupName == "g"                   \* the name of the group the model follows
GroupNames == {GroupName, "h"}
HotRatios == {0, 20, 100}          \* hotRatio in hundredths
NoGroup == [id |-> 0, name |-> "", cacheBytes |-> 0, hasHot |-> FALSE]
NoRegCall == [op |-> "", name |-> "", panic |-> "", ret |-> NoGroup]

\* var groups = make(map[string]*Group)
NewRegistry ==
    [groups |-> [n \in GroupNames |-> NoGroup], made |-> 0, last |-> NoRegCall]

\* newGroup without the test for a registered name
newGroupOverwrite(reg, name, bytes, getterNil, ratio) ==
    IF getterNil
    THEN [reg EXCEPT !.last = [op |-> "newGroup", name |-> name, panic |-> "nil Getter",
                               ret |-> NoGroup]]
    ELSE LET g == [id |-> reg.made + 1, name |-> name, cacheBytes |-> bytes,
                   hasHot |-> (ratio > 0 /\ ratio < 100)]
         IN [groups |-> [reg.groups EXCEPT ![name] = g], made |-> reg.made + 1,
             last |-> [op |-> "newGroup", name |-> name, panic |-> "", ret |-> g]]

\* newGroup: panics on a nil getter and on a registered name, else makes the
\* group and registers it
newGroup(reg, name, bytes, getterNil, ratio) ==
    IF getterNil
    THEN [reg EXCEPT !.last = [op |-> "newGroup", name |-> name, panic |-> "nil Getter",
                               ret |-> NoGroup]]
    ELSE IF reg.groups[name] # NoGroup
    THEN [reg EXCEPT !.last = [op |-> "newGroup", name |-> name,
                               panic |-> "duplicate registration of group",
                               ret |-> NoGroup]]
    ELSE LET g == [id |-> reg.made + 1, name |-> name, cacheBytes |-> bytes,
                   hasHot |-> (ratio > 0 /\ ratio < 100)]
         IN [groups |-> [reg.groups EXCEPT ![name] = g], made |-> reg.made + 1,
             last |-> [op |-> "newGroup", name |-> name, panic |-> "", ret |-> g]]

\* GetGroup: groups[name], nil for a name never registered
GetGroup(reg, name) ==
    [reg EXCEPT !.last = [op |-> "GetGroup", name |-> name, panic |-> "",
                          ret |-> reg.groups[name]]]

vars == <<cacheBytes, hasHot, hasPeers, mainCache, hotCache, hotDetector, sfm, calls,
          stats, pc, loc, hist, nGets, nSets, nDels, getterCalls, nCalls, peerCalls,
          store, evicted, hkAdds, pool, ringLog, registry, batch>>

config == <<cacheBytes, hasHot, hasPeers>>

AllKeys == Keys \cup {EmptyKey}

NewStats == [Gets |-> 0, CacheHits |-> 0, PeerLoads |-> 0, PeerErrors |-> 0,
             Loads |-> 0, LocalLoads |-> 0, LocalLoadErrs |-> 0]

\* n is the rank of a Get among the Gets started, call the flight it joined,
\* admitted whether the operation has added to a shard, fresh whether the key
\* was absent from the shard when populateCache added it, seen the call that
\* was in flight for the key, its load already invoked, when the Get entered
\* (kept until the Get makes a call of its own), adds the number of
\* hotDetector.Add calls the Get has made in lookupCache
NoLoc == [n |-> 0, key |-> EmptyKey, val |-> NilView, err |-> NoErr, call |-> 0,
          ret |-> "", target |-> "", admitted |-> FALSE, fresh |-> FALSE, seen |-> 0,
          keys |-> <<>>, rest |-> <<>>, errs |-> {}, adds |-> 0]
\* no gets call in progress.  keys is the argument of gets, todo the positions
\* whose goroutine has not run yet, idx the position each goroutine works on
\* (0: none), n the rank of the Get it has called, values and errors the two
\* result maps, canceled whether the caller's context is done, returned whether
\* eg.Wait() has returned
NoBatch == [active |-> FALSE, keys |-> <<>>, todo |-> {}, idx |-> [p \in Procs |-> 0],
            n |-> [p \in Procs |-> 0], values |-> {}, errors |-> {}, canceled |-> FALSE,
            returned |-> FALSE]

GetResult(n, k, val, err, via, c, admitted) ==
    [n |-> n, key |-> k, val |-> val, err |-> err, via |-> via, call |-> c,
     admitted |-> admitted]

call(val, err, done) == [val |-> val, err |-> err, done |-> done]

\* ---- configurations and warm-up -----------------------------------------
CacheBytesChoices == {4, 100}
PlainSeeds == [i \in Rows |-> 1]
SeedConfigs == {PlainSeeds, [i \in Rows |-> IF i = 1 THEN 8209 ELSE 1]}
\* A warmed group: a single caller has run Sets({"a": Store("a")}) followed
\* by Deletes(["a"]) n times on the new group.
WarmRounds == {0, hkMinCount - 1}
WarmKey == "a"
NoCoin == [i \in Rows |-> FALSE]

RECURSIVE WarmMain(_, _)
WarmMain(c, n) ==
    IF n = 0 THEN c
    ELSE WarmMain(cacheRemove(cacheAdd(c, WarmKey, cloneBytes(Store(WarmKey))), WarmKey), n - 1)

RECURSIVE WarmDetector(_, _)
WarmDetector(hk, n) == IF n = 0 THEN hk ELSE WarmDetector(hkAdd(hk, WarmKey, NoCoin), n - 1)

\* rows in which the bucket of k is held by another fingerprint: only there
\* does Add consult rand.Float64()
CollidingRows(hk, k) ==
    {i \in Rows : LET f == CellFp(hk, i, hkHash(hk, k, i))
                  IN f # ZeroFp /\ f # getFingerprint(k)}
Coins(hk, k) ==
    LET free == Rows \ CollidingRows(hk, k)
    IN {coin \in [Rows -> BOOLEAN] : \A i \in free : ~coin[i]}

\* the groups the model starts from; without a hot tier the detector is
\* never consulted, so its seeds and the warm-up make no difference there
Configs ==
    {c \in [cacheBytes : CacheBytesChoices, hasHot : BOOLEAN, hasPeers : BOOLEAN,
            seeds : SeedConfigs, warm : WarmRounds] :
        ~c.hasHot => (c.seeds = PlainSeeds /\ c.warm = 0)}

\* the groups with caching disabled
OffConfigs ==
    {c \in [cacheBytes : {0}, hasHot : BOOLEAN, hasPeers : BOOLEAN,
            seeds : {PlainSeeds}, warm : WarmRounds] :
        ~c.hasHot => c.warm = 0}

\* a group made by newGroup with one of the configurations cfgs
InitGroup(cfgs) ==
    /\ \E c \in cfgs :
          /\ cacheBytes = c.cacheBytes
          /\ hasHot = c.hasHot
          /\ hasPeers = c.hasPeers
          /\ mainCache = IF c.cacheBytes > 0 THEN WarmMain(NewCache, c.warm) ELSE NewCache
          /\ hotDetector = WarmDetector(NewHeavyKeeper(c.seeds), c.warm)
          /\ hkAdds = [k \in Keys |-> IF k = WarmKey THEN c.warm ELSE 0]
    /\ registry = newGroup(NewRegistry, GroupName, cacheBytes, FALSE,
                            IF hasHot THEN 20 ELSE 0)
    /\ batch = NoBatch
    /\ hotCache = NewCache
    /\ sfm = [k \in Keys |-> 0]
    /\ calls = <<>>
    /\ stats = NewStats
    /\ pc = [p \in Procs |-> "idle"]
    /\ loc = [p \in Procs |-> NoLoc]
    /\ hist = {}
    /\ nGets = 0 /\ nSets = 0 /\ nDels = 0
    /\ getterCalls = {}
    /\ nCalls = 0
    /\ peerCalls = {}

NoRingLog == [last |-> <<>>, firstPeers |-> <<>>, firstMap |-> <<>>, rebuilt |-> FALSE]

\* the group's picker is some implementation of PeerPicker
InitPicker ==
    /\ pool = NewHTTPPoolOpts("any", 1, "sum8")
    /\ ringLog = NoRingLog

InitWith(cfgs) ==
    /\ InitGroup(cfgs)
    /\ InitPicker
    /\ store = NewLRUK(0, 2)
    /\ evicted = <<>>

Init == InitWith(Configs)

\* ---- helpers --------------------------------------------------------------
Goto(p, label) == pc' = [pc EXCEPT ![p] = label]
Bump(field) == stats' = [stats EXCEPT ![field] = @ + 1]
Target(p) == IF loc[p].target = "hot" THEN hotCache ELSE mainCache

\* get returns (val, err) to its caller
Return(p, val, err, via) ==
    /\ pc' = [pc EXCEPT ![p] = "idle"]
    /\ hist' = hist \cup {GetResult(loc[p].n, loc[p].key, val, err, via, loc[p].call,
                                    loc[p].admitted)}
    /\ loc' = [loc EXCEPT ![p] = NoLoc]

\* a Sets item or a Deletes call ends
Finish(p) ==
    /\ pc' = [pc EXCEPT ![p] = "idle"]
    /\ loc' = [loc EXCEPT ![p] = NoLoc]
    /\ UNCHANGED hist

\* the Getter or the peer has been invoked on behalf of call c
LoadBegan(c) == \E r \in getterCalls \cup peerCalls : r.call = c

\* ---- Group.get ------------------------------------------------------------
\* get: Gets.Add(1), the empty-key check, then into lookupCache
GroupGet(p, k) ==
    /\ pc[p] = "idle"
    /\ nGets' = nGets + 1
    /\ Bump("Gets")
    /\ IF k = EmptyKey
       THEN /\ hist' = hist \cup {GetResult(nGets + 1, k, NilView, ErrKeyRequired, "reject",
                                             0, FALSE)}
            /\ UNCHANGED <<pc, loc>>
       ELSE /\ loc' = [loc EXCEPT ![p] =
                           [NoLoc EXCEPT !.n = nGets + 1, !.key = k,
                                         !.seen = IF LoadBegan(sfm[k]) THEN sfm[k] ELSE 0]]
            /\ Goto(p, IF hasHot THEN "lookupHot" ELSE "lookupMain")
            /\ UNCHANGED hist
    /\ UNCHANGED <<config, mainCache, hotCache, hotDetector, sfm, calls, nSets, nDels,
                   getterCalls, nCalls, peerCalls, store, evicted, hkAdds, pool, ringLog, registry>>

\* Get called by a client of the group
GetStart(p, k) == GroupGet(p, k) /\ UNCHANGED batch

\* lookupCache: g.hotCache.get(key)
LookupHot(p) ==
    /\ pc[p] = "lookupHot"
    /\ LET r == cacheGet(hotCache, loc[p].key)
       IN /\ hotCache' = r.cache
          /\ loc' = [loc EXCEPT ![p].val = r.value]
          /\ Goto(p, IF r.ok THEN "hit" ELSE "lookupMain")
    /\ UNCHANGED <<config, mainCache, hotDetector, sfm, calls, stats, hist, nGets, nSets, nDels,
                   getterCalls, nCalls, peerCalls, store, evicted, hkAdds, pool, ringLog, registry, batch>>

\* lookupCache: g.mainCache.get(key)
LookupMain(p) ==
    /\ pc[p] = "lookupMain"
    /\ LET r == cacheGet(mainCache, loc[p].key)
       IN /\ mainCache' = r.cache
          /\ loc' = [loc EXCEPT ![p].val = r.value]
          /\ Goto(p, IF r.ok THEN (IF hasHot THEN "lookupDetect" ELSE "hit") ELSE "doEnter")
    /\ UNCHANGED <<config, hotCache, hotDetector, sfm, calls, stats, hist, nGets, nSets, nDels,
                   getterCalls, nCalls, peerCalls, store, evicted, hkAdds, pool, ringLog, registry, batch>>

\* lookupCache: g.hotDetector.Add(key) after a mainCache hit
LookupDetect(p) ==
    /\ pc[p] = "lookupDetect"
    /\ \E coin \in Coins(hotDetector, loc[p].key) :
          hotDetector' = hkAdd(hotDetector, loc[p].key, coin)
    /\ loc' = [loc EXCEPT ![p].adds = @ + 1]
    /\ Goto(p, "lookupIsHot")
    /\ UNCHANGED <<config, mainCache, hotCache, sfm, calls, stats, hist, nGets, nSets, nDels,
                   getterCalls, nCalls, peerCalls, store, evicted, hkAdds, pool, ringLog, registry, batch>>

\* lookupCache: g.hotDetector.IsHot(key) && g.hotCache != nil
LookupIsHot(p) ==
    /\ pc[p] = "lookupIsHot"
    /\ Goto(p, IF IsHot(hotDetector, loc[p].key) /\ hasHot THEN "lookupHotAdd" ELSE "hit")
    /\ UNCHANGED <<config, mainCache, hotCache, hotDetector, sfm, calls, stats, loc, hist,
                   nGets, nSets, nDels, getterCalls, nCalls, peerCalls, store, evicted, hkAdds, pool, ringLog, registry, batch>>

\* lookupCache: g.hotCache.add(key, value)
LookupHotAdd(p) ==
    /\ pc[p] = "lookupHotAdd"
    /\ hotCache' = cacheAdd(hotCache, loc[p].key, loc[p].val)
    /\ loc' = [loc EXCEPT ![p].admitted = TRUE]
    /\ Goto(p, "hit")
    /\ UNCHANGED <<config, mainCache, hotDetector, sfm, calls, stats, hist, nGets, nSets,
                   nDels, getterCalls, nCalls, peerCalls, store, evicted, hkAdds, pool, ringLog, registry, batch>>

\* the cache-hit return without CacheHits.Add(1)
HitUncounted(p) ==
    /\ pc[p] = "hit"
    /\ Return(p, ByteSlice(loc[p].val), NoErr, "hit")
    /\ UNCHANGED <<config, mainCache, hotCache, hotDetector, sfm, calls, stats, nGets, nSets,
                   nDels, getterCalls, nCalls, peerCalls, store, evicted, hkAdds, pool, ringLog, registry, batch>>

\* get: the cache-hit return
Hit(p) ==
    /\ pc[p] = "hit"
    /\ Bump("CacheHits")
    /\ Return(p, ByteSlice(loc[p].val), NoErr, "hit")
    /\ UNCHANGED <<config, mainCache, hotCache, hotDetector, sfm, calls, nGets, nSets, nDels,
                   getterCalls, nCalls, peerCalls, store, evicted, hkAdds, pool, ringLog, registry, batch>>

\* ---- Group.load and singleflightGroup.Do ---------------------------------
\* Do without the lookup in g.m: every caller allocates its own call
DoEnterAlone(p) ==
    /\ pc[p] = "doEnter"
    /\ Bump("Loads")
    /\ calls' = Append(calls, call(NilView, NoErr, FALSE))
    /\ sfm' = [sfm EXCEPT ![loc[p].key] = Len(calls) + 1]
    /\ loc' = [loc EXCEPT ![p].call = Len(calls) + 1, ![p].seen = 0]
    /\ Goto(p, "fn")
    /\ UNCHANGED <<config, mainCache, hotCache, hotDetector, hist, nGets, nSets, nDels,
                   getterCalls, nCalls, peerCalls, store, evicted, hkAdds, pool, ringLog, registry, batch>>

\* Do answering from an earlier failed load of the key instead of running fn
DoEnterNegative(p) ==
    /\ pc[p] = "doEnter"
    /\ Bump("Loads")
    /\ LET k == loc[p].key
           failed == {r \in getterCalls : r.key = k /\ r.err # NoErr}
       IN IF failed # {}
          THEN /\ \E r \in failed :
                    /\ pc' = [pc EXCEPT ![p] = "idle"]
                    /\ hist' = hist \cup {GetResult(loc[p].n, k, NilView, r.err, "loader",
                                                    r.call, FALSE)}
                    /\ loc' = [loc EXCEPT ![p] = NoLoc]
               /\ UNCHANGED <<sfm, calls>>
          ELSE /\ calls' = Append(calls, call(NilView, NoErr, FALSE))
               /\ sfm' = [sfm EXCEPT ![k] = Len(calls) + 1]
               /\ loc' = [loc EXCEPT ![p].call = Len(calls) + 1, ![p].seen = 0]
               /\ Goto(p, "fn")
               /\ UNCHANGED hist
    /\ UNCHANGED <<config, mainCache, hotCache, hotDetector, nGets, nSets, nDels,
                   getterCalls, nCalls, peerCalls, store, evicted, hkAdds, pool, ringLog, registry, batch>>

\* Do joining whatever call is in flight, for its key or for another
DoEnterAnyKey(p) ==
    /\ pc[p] = "doEnter"
    /\ Bump("Loads")
    /\ LET k == loc[p].key
           inflight == {x \in Keys : sfm[x] # 0}
       IN IF inflight # {}
          THEN /\ \E x \in inflight : loc' = [loc EXCEPT ![p].call = sfm[x]]
               /\ Goto(p, "wait")
               /\ UNCHANGED <<sfm, calls>>
          ELSE /\ calls' = Append(calls, call(NilView, NoErr, FALSE))
               /\ sfm' = [sfm EXCEPT ![k] = Len(calls) + 1]
               /\ loc' = [loc EXCEPT ![p].call = Len(calls) + 1, ![p].seen = 0]
               /\ Goto(p, "fn")
    /\ UNCHANGED <<config, mainCache, hotCache, hotDetector, hist, nGets, nSets, nDels,
                   getterCalls, nCalls, peerCalls, store, evicted, hkAdds, pool, ringLog, registry, batch>>

\* load: Loads.Add(1); Do: the first critical section under g.mu
\* load counting Loads only for the caller that creates the call
DoEnterLoadsDeduped(p) ==
    /\ pc[p] = "doEnter"
    /\ LET k == loc[p].key
       IN IF sfm[k] # 0
          THEN /\ loc' = [loc EXCEPT ![p].call = sfm[k]]
               /\ Goto(p, "wait")
               /\ UNCHANGED <<sfm, calls, stats>>
          ELSE /\ Bump("Loads")
               /\ calls' = Append(calls, call(NilView, NoErr, FALSE))
               /\ sfm' = [sfm EXCEPT ![k] = Len(calls) + 1]
               /\ loc' = [loc EXCEPT ![p].call = Len(calls) + 1, ![p].seen = 0]
               /\ Goto(p, "fn")
    /\ UNCHANGED <<config, mainCache, hotCache, hotDetector, hist, nGets, nSets, nDels,
                   getterCalls, nCalls, peerCalls, store, evicted, hkAdds, pool, ringLog, registry, batch>>

DoEnter(p) ==
    /\ pc[p] = "doEnter"
    /\ Bump("Loads")
    /\ LET k == loc[p].key
       IN IF sfm[k] # 0
          THEN /\ loc' = [loc EXCEPT ![p].call = sfm[k]]
               /\ Goto(p, "wait")
               /\ UNCHANGED <<sfm, calls>>
          ELSE /\ calls' = Append(calls, call(NilView, NoErr, FALSE))
               /\ sfm' = [sfm EXCEPT ![k] = Len(calls) + 1]
               /\ loc' = [loc EXCEPT ![p].call = Len(calls) + 1, ![p].seen = 0]
               /\ Goto(p, "fn")
    /\ UNCHANGED <<config, mainCache, hotCache, hotDetector, hist, nGets, nSets, nDels,
                   getterCalls, nCalls, peerCalls, store, evicted, hkAdds, pool, ringLog, registry, batch>>

\* Do returning c.val, c.err without c.wg.Wait()
WaitEarly(p) ==
    /\ pc[p] = "wait"
    /\ LET c == calls[loc[p].call]
       IN Return(p, IF c.err # NoErr THEN NilView ELSE ByteSlice(c.val), c.err, "waiter")
    /\ UNCHANGED <<config, mainCache, hotCache, hotDetector, sfm, calls, stats, nGets, nSets,
                   nDels, getterCalls, nCalls, peerCalls, store, evicted, hkAdds, pool, ringLog, registry, batch>>

\* Do: c.wg.Wait(); return c.val, c.err -- then load and get return
Wait(p) ==
    /\ pc[p] = "wait"
    /\ calls[loc[p].call].done
    /\ LET c == calls[loc[p].call]
       IN Return(p, IF c.err # NoErr THEN NilView ELSE ByteSlice(c.val), c.err, "waiter")
    /\ UNCHANGED <<config, mainCache, hotCache, hotDetector, sfm, calls, stats, nGets, nSets,
                   nDels, getterCalls, nCalls, peerCalls, store, evicted, hkAdds, pool, ringLog, registry, batch>>

\* fn: g.peers != nil and g.peers.PickPeer(key)
Fn(p) ==
    /\ pc[p] = "fn"
    /\ \E remote \in IF hasPeers THEN PickPeerOk(pool, loc[p].key) ELSE {FALSE} :
          Goto(p, IF remote THEN "peerGet" ELSE "getLocally")
    /\ UNCHANGED <<config, mainCache, hotCache, hotDetector, sfm, calls, stats, loc, hist,
                   nGets, nSets, nDels, getterCalls, nCalls, peerCalls, store, evicted, hkAdds, pool, ringLog, registry, batch>>

\* fn giving up with the peer's error instead of loading locally
PeerGetFatal(p) ==
    /\ pc[p] = "peerGet"
    /\ \/ /\ loc' = [loc EXCEPT ![p].val = Store(loc[p].key), ![p].target = "main",
                                ![p].ret = "peerLoaded"]
          /\ peerCalls' = peerCalls \cup {[call |-> loc[p].call, key |-> loc[p].key,
                                           err |-> NoErr]}
          /\ Goto(p, "populate")
          /\ UNCHANGED stats
       \/ /\ \E e \in PeerErrs :
                /\ peerCalls' = peerCalls \cup {[call |-> loc[p].call, key |-> loc[p].key,
                                                err |-> e]}
                /\ loc' = [loc EXCEPT ![p].val = NilView, ![p].err = e]
          /\ Bump("PeerErrors")
          /\ Goto(p, "fnReturn")
    /\ UNCHANGED <<config, mainCache, hotCache, hotDetector, sfm, calls, hist, nGets, nSets,
                   nDels, getterCalls, nCalls, store, evicted, hkAdds, pool, ringLog, registry, batch>>

\* getFromPeer: peer.Get; a failure falls through to the local load
PeerGet(p) ==
    /\ pc[p] = "peerGet"
    /\ \/ /\ loc' = [loc EXCEPT ![p].val = Store(loc[p].key), ![p].target = "main",
                                ![p].ret = "peerLoaded"]
          /\ peerCalls' = peerCalls \cup {[call |-> loc[p].call, key |-> loc[p].key,
                                           err |-> NoErr]}
          /\ Goto(p, "populate")
          /\ UNCHANGED stats
       \/ /\ \E e \in PeerErrs :
                peerCalls' = peerCalls \cup {[call |-> loc[p].call, key |-> loc[p].key,
                                             err |-> e]}
          /\ Bump("PeerErrors")
          /\ Goto(p, "getLocally")
          /\ UNCHANGED loc
    /\ UNCHANGED <<config, mainCache, hotCache, hotDetector, sfm, calls, hist, nGets, nSets,
                   nDels, getterCalls, nCalls, store, evicted, hkAdds, pool, ringLog, registry, batch>>

\* fn: PeerLoads.Add(1); return value, nil
PeerLoaded(p) ==
    /\ pc[p] = "peerLoaded"
    /\ Bump("PeerLoads")
    /\ loc' = [loc EXCEPT ![p].err = NoErr]
    /\ Goto(p, "fnReturn")
    /\ UNCHANGED <<config, mainCache, hotCache, hotDetector, sfm, calls, hist, nGets, nSets,
                   nDels, getterCalls, nCalls, peerCalls, store, evicted, hkAdds, pool, ringLog, registry, batch>>

\* fn calling populateCache before it looks at the error of getLocally
GetLocallyAdmitFirst(p) ==
    /\ pc[p] = "getLocally"
    /\ \E e \in {NoErr} \cup GetterErrs :
          /\ getterCalls' = getterCalls \cup {[call |-> loc[p].call, key |-> loc[p].key,
                                               err |-> e]}
          /\ stats' = [stats EXCEPT !.LocalLoads = @ + 1,
                                    !.LocalLoadErrs = IF e = NoErr THEN @ ELSE @ + 1]
          /\ loc' = [loc EXCEPT ![p].val = IF e = NoErr THEN cloneBytes(Store(loc[p].key))
                                           ELSE NilView,
                                ![p].err = e, ![p].target = "main",
                                ![p].ret = IF e = NoErr THEN "loadDetect" ELSE "fnReturn"]
          /\ Goto(p, "populate")
    /\ UNCHANGED <<config, mainCache, hotCache, hotDetector, sfm, calls, hist, nGets, nSets,
                   nDels, nCalls, peerCalls, store, evicted, hkAdds, pool, ringLog, registry, batch>>

\* fn: LocalLoads.Add(1); getLocally: the Getter runs and returns
GetLocally(p) ==
    /\ pc[p] = "getLocally"
    /\ \E e \in {NoErr} \cup GetterErrs :
          /\ getterCalls' = getterCalls \cup {[call |-> loc[p].call, key |-> loc[p].key,
                                               err |-> e]}
          /\ IF e = NoErr
             THEN /\ stats' = [stats EXCEPT !.LocalLoads = @ + 1]
                  /\ loc' = [loc EXCEPT ![p].val = cloneBytes(Store(loc[p].key)),
                                        ![p].target = "main", ![p].ret = "loadDetect"]
                  /\ Goto(p, "populate")
             ELSE /\ stats' = [stats EXCEPT !.LocalLoads = @ + 1, !.LocalLoadErrs = @ + 1]
                  /\ loc' = [loc EXCEPT ![p].val = NilView, ![p].err = e]
                  /\ Goto(p, "fnReturn")
    /\ UNCHANGED <<config, mainCache, hotCache, hotDetector, sfm, calls, hist, nGets, nSets,
                   nDels, nCalls, peerCalls, store, evicted, hkAdds, pool, ringLog, registry, batch>>

\* fn: g.hotDetector.Add(key) after the local load was cached
LoadDetect(p) ==
    /\ pc[p] = "loadDetect"
    /\ IF hasHot
       THEN \E coin \in Coins(hotDetector, loc[p].key) :
               hotDetector' = hkAdd(hotDetector, loc[p].key, coin)
       ELSE UNCHANGED hotDetector
    /\ Goto(p, "fnReturn")
    /\ UNCHANGED <<config, mainCache, hotCache, sfm, calls, stats, loc, hist, nGets, nSets,
                   nDels, getterCalls, nCalls, peerCalls, store, evicted, hkAdds, pool, ringLog, registry, batch>>

\* Do keeping the value of fn and dropping its error
FnReturnNoErr(p) ==
    /\ pc[p] = "fnReturn"
    /\ calls' = [calls EXCEPT ![loc[p].call] = call(loc[p].val, NoErr, TRUE)]
    /\ Goto(p, "cleanup")
    /\ UNCHANGED <<config, mainCache, hotCache, hotDetector, sfm, stats, loc, hist, nGets,
                   nSets, nDels, getterCalls, nCalls, peerCalls, store, evicted, hkAdds, pool, ringLog, registry, batch>>

\* Do storing the result of fn without c.wg.Done()
FnReturnNoDone(p) ==
    /\ pc[p] = "fnReturn"
    /\ calls' = [calls EXCEPT ![loc[p].call] = call(loc[p].val, loc[p].err, FALSE)]
    /\ Goto(p, "cleanup")
    /\ UNCHANGED <<config, mainCache, hotCache, hotDetector, sfm, stats, loc, hist, nGets,
                   nSets, nDels, getterCalls, nCalls, peerCalls, store, evicted, hkAdds, pool, ringLog, registry, batch>>

\* Do: c.val, c.err = fn(); c.wg.Done()
FnReturn(p) ==
    /\ pc[p] = "fnReturn"
    /\ calls' = [calls EXCEPT ![loc[p].call] = call(loc[p].val, loc[p].err, TRUE)]
    /\ Goto(p, "cleanup")
    /\ UNCHANGED <<config, mainCache, hotCache, hotDetector, sfm, stats, loc, hist, nGets,
                   nSets, nDels, getterCalls, nCalls, peerCalls, store, evicted, hkAdds, pool, ringLog, registry, batch>>

\* Do: delete(g.m, key); return c.val, c.err -- then load and get return
Cleanup(p) ==
    /\ pc[p] = "cleanup"
    /\ sfm' = [sfm EXCEPT ![loc[p].key] = 0]
    /\ LET c == calls[loc[p].call]
       IN Return(p, IF c.err # NoErr THEN NilView ELSE ByteSlice(c.val), c.err, "loader")
    /\ UNCHANGED <<config, mainCache, hotCache, hotDetector, calls, stats, nGets, nSets, nDels,
                   getterCalls, nCalls, peerCalls, store, evicted, hkAdds, pool, ringLog, registry, batch>>

\* ---- Group.populateCache --------------------------------------------------
\* populateCache returning before cache.add whatever cacheBytes is
PopulateDisabled(p) ==
    /\ pc[p] = "populate"
    /\ Goto(p, loc[p].ret)
    /\ UNCHANGED <<config, mainCache, hotCache, loc, hotDetector, sfm, calls, stats, hist,
                   nGets, nSets, nDels, getterCalls, nCalls, peerCalls, store, evicted, hkAdds, pool, ringLog, registry, batch>>

\* populateCache without its cacheBytes <= 0 return
PopulateAlways(p) ==
    /\ pc[p] = "populate"
    /\ IF loc[p].target = "hot"
       THEN /\ hotCache' = cacheAdd(hotCache, loc[p].key, loc[p].val)
            /\ UNCHANGED mainCache
       ELSE /\ mainCache' = cacheAdd(mainCache, loc[p].key, loc[p].val)
            /\ UNCHANGED hotCache
    /\ loc' = [loc EXCEPT ![p].admitted = TRUE,
                          ![p].fresh = loc[p].key \notin CacheKeys(Target(p))]
    /\ Goto(p, "evictCheck")
    /\ UNCHANGED <<config, hotDetector, sfm, calls, stats, hist, nGets, nSets, nDels,
                   getterCalls, nCalls, peerCalls, store, evicted, hkAdds, pool, ringLog, registry, batch>>

\* populateCache: the cacheBytes <= 0 return, else cache.add(key, value)
Populate(p) ==
    /\ pc[p] = "populate"
    /\ IF cacheBytes <= 0
       THEN /\ Goto(p, loc[p].ret)
            /\ UNCHANGED <<mainCache, hotCache, loc>>
       ELSE /\ IF loc[p].target = "hot"
               THEN /\ hotCache' = cacheAdd(hotCache, loc[p].key, loc[p].val)
                    /\ UNCHANGED mainCache
               ELSE /\ mainCache' = cacheAdd(mainCache, loc[p].key, loc[p].val)
                    /\ UNCHANGED hotCache
            /\ loc' = [loc EXCEPT ![p].admitted = TRUE,
                                  ![p].fresh = loc[p].key \notin CacheKeys(Target(p))]
            /\ Goto(p, "evictCheck")
    /\ UNCHANGED <<config, hotDetector, sfm, calls, stats, hist, nGets, nSets, nDels,
                   getterCalls, nCalls, peerCalls, store, evicted, hkAdds, pool, ringLog, registry, batch>>

\* populateCache: the loop condition cache.bytes() > g.cacheBytes
EvictCheck(p) ==
    /\ pc[p] = "evictCheck"
    /\ Goto(p, IF cacheBytesOf(Target(p)) > cacheBytes THEN "evict" ELSE loc[p].ret)
    /\ UNCHANGED <<config, mainCache, hotCache, hotDetector, sfm, calls, stats, loc, hist,
                   nGets, nSets, nDels, getterCalls, nCalls, peerCalls, store, evicted, hkAdds, pool, ringLog, registry, batch>>

\* populateCache: cache.removeOldest()
Evict(p) ==
    /\ pc[p] = "evict"
    /\ IF loc[p].target = "hot"
       THEN /\ hotCache' = cacheRemoveOldest(hotCache)
            /\ UNCHANGED mainCache
       ELSE /\ mainCache' = cacheRemoveOldest(mainCache)
            /\ UNCHANGED hotCache
    /\ Goto(p, "evictCheck")
    /\ UNCHANGED <<config, hotDetector, sfm, calls, stats, loc, hist, nGets, nSets, nDels,
                   getterCalls, nCalls, peerCalls, store, evicted, hkAdds, pool, ringLog, registry, batch>>

\* ---- Group.sets: the goroutine of one item --------------------------------
SetsStart(p, k, v) ==
    /\ pc[p] = "idle"
    /\ nSets' = nSets + 1
    /\ loc' = [loc EXCEPT ![p] = [NoLoc EXCEPT !.key = k, !.val = cloneBytes(v),
                                               !.target = "main", !.ret = "setsDetect"]]
    /\ Goto(p, "populate")
    /\ UNCHANGED hist
    /\ UNCHANGED <<config, mainCache, hotCache, hotDetector, sfm, calls, stats, nGets,
                   nDels, getterCalls, nCalls, peerCalls, store, evicted, hkAdds, pool, ringLog, registry, batch>>

\* sets: g.hotDetector.Add(key); the goroutine ends
SetsDetect(p) ==
    /\ pc[p] = "setsDetect"
    /\ IF hasHot
       THEN \E coin \in Coins(hotDetector, loc[p].key) :
               hotDetector' = hkAdd(hotDetector, loc[p].key, coin)
       ELSE UNCHANGED hotDetector
    /\ Finish(p)
    /\ UNCHANGED <<config, mainCache, hotCache, sfm, calls, stats, nGets, nSets, nDels,
                   getterCalls, nCalls, peerCalls, store, evicted, hkAdds, pool, ringLog, registry, batch>>

\* ---- Group.Deletes ---------------------------------------------------------
\* the key lists passed to Deletes: up to two keys, repeats allowed
DelLists == UNION {[1..n -> Keys] : n \in 0..2}

\* Deletes: errors := make(map[string]error), then the loop over keys; with
\* no key it returns at once
DeletesStart(p, keys) ==
    /\ pc[p] = "idle"
    /\ nDels' = nDels + 1
    /\ IF keys = <<>>
       THEN UNCHANGED <<pc, loc>>
       ELSE /\ loc' = [loc EXCEPT ![p] = [NoLoc EXCEPT !.key = Head(keys), !.keys = keys,
                                                       !.rest = Tail(keys), !.errs = {}]]
            /\ Goto(p, "deletesMain")
    /\ UNCHANGED hist
    /\ UNCHANGED <<config, mainCache, hotCache, hotDetector, sfm, calls, stats, nGets, nSets,
                   getterCalls, nCalls, peerCalls, store, evicted, hkAdds, pool, ringLog, registry, batch>>

\* Deletes without the removal from the hot cache
DeletesHotSkip(p) ==
    /\ pc[p] = "deletesHot"
    /\ IF loc[p].rest = <<>>
       THEN Finish(p)
       ELSE /\ loc' = [loc EXCEPT ![p].key = Head(loc[p].rest), ![p].rest = Tail(loc[p].rest)]
            /\ Goto(p, "deletesMain")
            /\ UNCHANGED hist
    /\ UNCHANGED <<config, mainCache, hotCache, hotDetector, sfm, calls, stats, nGets, nSets,
                   nDels, getterCalls, nCalls, peerCalls, store, evicted, hkAdds, pool, ringLog, registry, batch>>

\* g.mainCache.remove(key)
DeletesMain(p) ==
    /\ pc[p] = "deletesMain"
    /\ mainCache' = cacheRemove(mainCache, loc[p].key)
    /\ Goto(p, "deletesHot")
    /\ UNCHANGED <<config, hotCache, hotDetector, sfm, calls, stats, loc, hist, nGets, nSets,
                   nDels, getterCalls, nCalls, peerCalls, store, evicted, hkAdds, pool, ringLog, registry, batch>>

\* g.hotCache.remove(key) when g.hotCache != nil, then the next key; after the
\* last key Deletes returns errors
DeletesHot(p) ==
    /\ pc[p] = "deletesHot"
    /\ hotCache' = IF hasHot THEN cacheRemove(hotCache, loc[p].key) ELSE hotCache
    /\ IF loc[p].rest = <<>>
       THEN Finish(p)
       ELSE /\ loc' = [loc EXCEPT ![p].key = Head(loc[p].rest), ![p].rest = Tail(loc[p].rest)]
            /\ Goto(p, "deletesMain")
            /\ UNCHANGED hist
    /\ UNCHANGED <<config, mainCache, hotDetector, sfm, calls, stats, nGets, nSets, nDels,
                   getterCalls, nCalls, peerCalls, store, evicted, hkAdds, pool, ringLog, registry, batch>>

\* ---- HeavyKeeper.decayRoutine: one tick ------------------------------------
Decay ==
    /\ hasHot
    /\ hotDetector' = hkDecay(hotDetector)
    /\ UNCHANGED <<config, mainCache, hotCache, sfm, calls, stats, pc, loc, hist, nGets,
                   nSets, nDels, getterCalls, nCalls, peerCalls, store, evicted, hkAdds, pool, ringLog, registry, batch>>

\* ---- the steps of each operation ------------------------------------------
PopulateSteps(p) == Populate(p) \/ EvictCheck(p) \/ Evict(p)

\* the steps of a Get that finds no call in flight
GetStepsAlone(p) ==
    \/ LookupHot(p) \/ LookupMain(p) \/ LookupDetect(p) \/ LookupIsHot(p) \/ LookupHotAdd(p)
    \/ Hit(p) \/ DoEnter(p) \/ Fn(p) \/ PeerGet(p) \/ PeerLoaded(p)
    \/ GetLocally(p) \/ LoadDetect(p) \/ FnReturn(p) \/ Cleanup(p)

GetSteps(p) == GetStepsAlone(p) \/ Wait(p)

\* ---- the whole group: concurrent Gets, Sets items, Deletes and decay -------
\* at most MaxOps operations are started, at most MaxGets of them Gets, MaxSets
\* Sets items and MaxDels Deletes
MayStart(n, max) == n < max /\ nGets + nSets + nDels < MaxOps

Next ==
    \/ \E p \in Procs, k \in AllKeys : MayStart(nGets, MaxGets) /\ GetStart(p, k)
    \/ \E p \in Procs : GetSteps(p)
    \/ \E p \in Procs : PopulateSteps(p)
    \/ \E p \in Procs, k \in Keys, v \in SetValues :
          MayStart(nSets, MaxSets) /\ SetsStart(p, k, v)
    \/ \E p \in Procs : SetsDetect(p)
    \/ \E p \in Procs, keys \in DelLists : MayStart(nDels, MaxDels) /\ DeletesStart(p, keys)
    \/ \E p \in Procs : DeletesMain(p)
    \/ \E p \in Procs : DeletesHot(p)
    \/ hotDetector.decays < MaxDecay /\ Decay

Spec == Init /\ [][Next]_vars

\* ---- concurrent Gets only --------------------------------------------------
InitGets == InitWith({c \in Configs : c.seeds = PlainSeeds /\ (c.hasHot => c.warm > 0)})

NextGets ==
    \/ \E p \in Procs, k \in Keys : nGets < MaxGets /\ GetStart(p, k)
    \/ \E p \in Procs : GetSteps(p)
    \/ \E p \in Procs : PopulateSteps(p)

SpecGets == InitGets /\ [][NextGets]_vars

\* ---- sequential Gets: a Get starts when no other is running, so that Do
\* never finds a call in flight
NextSeq ==
    \/ \E p \in Procs, k \in Keys :
          /\ nGets < MaxSeqGets
          /\ \A q \in Procs : pc[q] = "idle"
          /\ GetStart(p, k)
    \/ \E p \in Procs : GetStepsAlone(p)
    \/ \E p \in Procs : PopulateSteps(p)

SpecSeq == InitGets /\ [][NextSeq]_vars

\* ---- sequential Gets and Sets items on groups with caching disabled and,
\* for comparison, on groups with a small cache
InitOff ==
    InitWith({c \in Configs \cup OffConfigs :
                 c.cacheBytes <= 4 /\ c.seeds = PlainSeeds /\ (c.hasHot => c.warm > 0)})

NextOff ==
    \/ \E p \in Procs, k \in Keys :
          /\ nGets + nSets < MaxOffOps
          /\ \A q \in Procs : pc[q] = "idle"
          /\ GetStart(p, k)
    \/ \E p \in Procs, k \in Keys, v \in SetValues :
          /\ nGets + nSets < MaxOffOps
          /\ \A q \in Procs : pc[q] = "idle"
          /\ SetsStart(p, k, v)
    \/ \E p \in Procs : GetStepsAlone(p)
    \/ \E p \in Procs : PopulateSteps(p)
    \/ \E p \in Procs : SetsDetect(p)

SpecOff == InitOff /\ [][NextOff]_vars

\* ---- one shard, called directly: add, get, remove, removeOldest ------------
ShardStep(c) ==
    /\ nCalls' = nCalls + 1
    /\ mainCache' = c
    /\ UNCHANGED <<config, hotCache, hotDetector, sfm, calls, stats, pc, loc, hist, nGets,
                   nSets, nDels, getterCalls, peerCalls, store, evicted, hkAdds, pool, ringLog, registry, batch>>

ShardAdd(k, v) == ShardStep(cacheAdd(mainCache, k, v))
ShardGet(k) == ShardStep(cacheGet(mainCache, k).cache)
ShardRemove(k) == ShardStep(cacheRemove(mainCache, k))
ShardRemoveOldest == ShardStep(cacheRemoveOldest(mainCache))

InitShard == InitWith({c \in Configs : c.cacheBytes = 100 /\ ~c.hasHot /\ ~c.hasPeers})

NextShard ==
    \/ \E k \in Keys, v \in SetValues : nCalls < MaxCalls /\ ShardAdd(k, v)
    \/ \E k \in Keys : nCalls < MaxCalls /\ ShardGet(k)
    \/ \E k \in Keys : nCalls < MaxCalls /\ ShardRemove(k)
    \/ nCalls < MaxCalls /\ ShardRemoveOldest

SpecShard == InitShard /\ [][NextShard]_vars

\* ---- one LRUKCache, called directly: Add, Get, Remove, RemoveOldest, Clear --
MaxEntriesChoices == {0, 1, 2, 4}
KChoices == {1, 2, 3}

StoreStep(r) ==
    /\ nCalls' = nCalls + 1
    /\ store' = r.lru
    /\ evicted' = r.ev
    /\ UNCHANGED <<config, mainCache, hotCache, hotDetector, sfm, calls, stats, pc, loc,
                   hist, nGets, nSets, nDels, getterCalls, peerCalls, hkAdds, pool, ringLog,
                   registry, batch>>

StoreAdd(k, v) == StoreStep(LRUAdd(store, k, v))
StoreGet(k) == StoreStep([lru |-> LRUGet(store, k).lru, ev |-> <<>>])
StoreRemove(k) == StoreStep(LRURemove(store, k))
StoreRemoveOldest == StoreStep(RemoveOldest(store))
StoreClear ==
    \E oc \in Orders(store.cache), oh \in Orders(store.history) :
        StoreStep(LRUClear(store, oc, oh))

InitStore ==
    /\ InitGroup({c \in Configs : c.cacheBytes = 100 /\ ~c.hasHot /\ ~c.hasPeers})
    /\ \E m \in MaxEntriesChoices, k \in KChoices : store = NewLRUK(m, k)
    /\ evicted = <<>>
    /\ InitPicker

NextStore ==
    \/ \E k \in StoreKeys, v \in SetValues : nCalls < MaxStoreCalls /\ StoreAdd(k, v)
    \/ \E k \in StoreKeys : nCalls < MaxStoreCalls /\ StoreGet(k)
    \/ \E k \in StoreKeys : nCalls < MaxStoreCalls /\ StoreRemove(k)
    \/ nCalls < MaxStoreCalls /\ StoreRemoveOldest
    \/ nCalls < MaxStoreCalls /\ StoreClear

SpecStore == InitStore /\ [][NextStore]_vars

\* ---- a store with K = 2 and maxEntries = 4 under Adds and Gets of many keys --
ScanValue == <<7>>

InitScan ==
    /\ InitGroup({c \in Configs : c.cacheBytes = 100 /\ ~c.hasHot /\ ~c.hasPeers})
    /\ store = NewLRUK(4, 2)
    /\ evicted = <<>>
    /\ InitPicker

NextScan ==
    \/ \E k \in ScanKeys : nCalls < MaxScanCalls /\ StoreAdd(k, ScanValue)
    \/ \E k \in ScanKeys : nCalls < MaxScanCalls /\ StoreGet(k)

SpecScan == InitScan /\ [][NextScan]_vars

\* ---- the HeavyKeeper of a group, called directly: Add and the decay pass ----
\* seeds are drawn by rand.Uint32(): no row, the first row or every row may
\* send both keys to one bucket
HKSeedConfigs == SeedConfigs \cup {[i \in Rows |-> 8209]}

HKAdd(k) ==
    /\ \E coin \in Coins(hotDetector, k) : hotDetector' = hkAdd(hotDetector, k, coin)
    /\ hkAdds' = [hkAdds EXCEPT ![k] = @ + 1]
    /\ nCalls' = nCalls + 1
    /\ UNCHANGED <<config, mainCache, hotCache, sfm, calls, stats, pc, loc, hist, nGets,
                   nSets, nDels, getterCalls, peerCalls, store, evicted, pool, ringLog,
                   registry, batch>>

InitHK ==
    InitWith([cacheBytes : {100}, hasHot : {TRUE}, hasPeers : {FALSE},
              seeds : HKSeedConfigs, warm : WarmRounds])

NextHK ==
    \/ \E k \in Keys : nCalls < MaxHKAdds /\ HKAdd(k)
    \/ hotDetector.decays < MaxDecay /\ Decay

SpecHK == InitHK /\ [][NextHK]_vars

\* ---- a HeavyKeeper under enough Adds to bring both keys into the top-K ------
MaxHeapAdds == 14

InitHeap ==
    InitWith([cacheBytes : {100}, hasHot : {TRUE}, hasPeers : {FALSE},
              seeds : SeedConfigs, warm : WarmRounds])

NextHeap ==
    \/ \E k \in Keys : nCalls < MaxHeapAdds /\ HKAdd(k)
    \/ hotDetector.decays < MaxDecay /\ Decay

SpecHeap == InitHeap /\ [][NextHeap]_vars

\* ---- an HTTPPool whose peers are set again and again ------------------------
ReplicaChoices == {1, 2, 3}
\* the argument lists of Set: the peers of a subset of PeerIds in some order
PeerLists ==
    {l \in UNION {[1..n -> PeerIds] : n \in 0..Cardinality(PeerIds)} :
        \A i, j \in 1..Len(l) : l[i] = l[j] => i = j}

HTTPSet(peers) ==
    /\ nCalls' = nCalls + 1
    /\ pool' = PoolSet(pool, peers)
    /\ ringLog' =
          IF ringLog.firstPeers = <<>> /\ peers # <<>>
          THEN [last |-> peers, firstPeers |-> peers, firstMap |-> RingMapping(pool'),
                rebuilt |-> FALSE]
          ELSE [ringLog EXCEPT !.last = peers,
                               !.rebuilt = (peers = ringLog.firstPeers /\ ringLog.last # peers)]
    /\ UNCHANGED <<config, mainCache, hotCache, hotDetector, sfm, calls, stats, pc, loc,
                   hist, nGets, nSets, nDels, getterCalls, peerCalls, store, evicted, hkAdds,
                   registry, batch>>

InitRing ==
    /\ InitGroup({c \in Configs : c.cacheBytes = 100 /\ ~c.hasHot /\ c.hasPeers})
    /\ store = NewLRUK(0, 2)
    /\ evicted = <<>>
    /\ \E r \in ReplicaChoices, fn \in HashFns : pool = NewHTTPPoolOpts("http", r, fn)
    /\ ringLog = NoRingLog

NextRing == \E peers \in PeerLists : nCalls < MaxSetCalls /\ HTTPSet(peers)

SpecRing == InitRing /\ [][NextRing]_vars

\* ---- sequential Gets on a group whose picker is an HTTPPool or NoPeers, or
\* that has no picker, while the pool's peers are set
MaxPickGets == 2
MaxPickSets == 1
\* Set with no peer, with a remote peer, with this process and a remote peer
PickLists == {<<>>, <<"p">>, <<SelfId, "p">>}

InitPick ==
    /\ InitGroup({c \in Configs : c.seeds = PlainSeeds /\ (c.hasHot => c.warm > 0)})
    /\ store = NewLRUK(0, 2)
    /\ evicted = <<>>
    /\ \E kind \in {"http", "nopeers"}, r \in {1, 2}, fn \in HashFns :
          /\ (kind = "nopeers" \/ ~hasPeers) => (r = 1 /\ fn = "sum8")
          /\ pool = NewHTTPPoolOpts(kind, r, fn)
    /\ ringLog = NoRingLog

NextPick ==
    \/ \E p \in Procs, k \in Keys :
          /\ nGets < MaxPickGets
          /\ \A q \in Procs : pc[q] = "idle"
          /\ GetStart(p, k)
    \/ \E p \in Procs : GetStepsAlone(p)
    \/ \E p \in Procs : PopulateSteps(p)
    \/ \E peers \in PickLists :
          /\ hasPeers /\ pool.kind = "http"
          /\ nCalls < MaxPickSets
          /\ HTTPSet(peers)

SpecPick == InitPick /\ [][NextPick]_vars

\* ---- Gets, Sets items and Deletes one after another -----------------------
MaxDelOps == 3

NextDel ==
    \/ \E p \in Procs, k \in Keys :
          /\ nGets + nSets + nDels < MaxDelOps
          /\ \A q \in Procs : pc[q] = "idle"
          /\ GetStart(p, k)
    \/ \E p \in Procs, k \in Keys, v \in SetValues :
          /\ nGets + nSets + nDels < MaxDelOps
          /\ \A q \in Procs : pc[q] = "idle"
          /\ SetsStart(p, k, v)
    \/ \E p \in Procs, keys \in DelLists :
          /\ nGets + nSets + nDels < MaxDelOps
          /\ \A q \in Procs : pc[q] = "idle"
          /\ DeletesStart(p, keys)
    \/ \E p \in Procs : GetStepsAlone(p)
    \/ \E p \in Procs : PopulateSteps(p)
    \/ \E p \in Procs : SetsDetect(p)
    \/ \E p \in Procs : DeletesMain(p)
    \/ \E p \in Procs : DeletesHot(p)

SpecDel == InitGets /\ [][NextDel]_vars

\* ---- the callers of populateCache: concurrent Gets and Sets items ----------
MaxPopOps == 2

NextPop ==
    \/ \E p \in Procs, k \in Keys : nGets + nSets < MaxPopOps /\ GetStart(p, k)
    \/ \E p \in Procs, k \in Keys, v \in SetValues :
          nGets + nSets < MaxPopOps /\ SetsStart(p, k, v)
    \/ \E p \in Procs : GetSteps(p)
    \/ \E p \in Procs : PopulateSteps(p)
    \/ \E p \in Procs : SetsDetect(p)

SpecPop == InitGets /\ [][NextPop]_vars

\* ---- singleflightGroup.Do called by concurrent goroutines with an fn that
\* returns some value or error, under a fair scheduler: every goroutine that
\* can take a step eventually takes one (the Go scheduler is preemptive,
\* mutexes and WaitGroups wake their waiters)
MaxFlightCalls == 3

\* a goroutine calls Do(key, fn)
FlightDo(p, k) ==
    /\ pc[p] = "idle"
    /\ nCalls' = nCalls + 1
    /\ loc' = [loc EXCEPT ![p] = [NoLoc EXCEPT !.key = k, !.n = nCalls + 1]]
    /\ Goto(p, "doEnter")
    /\ UNCHANGED <<config, mainCache, hotCache, hotDetector, sfm, calls, stats, hist, nGets,
                   nSets, nDels, getterCalls, peerCalls, store, evicted, hkAdds, pool, ringLog,
                   registry, batch>>

\* fn runs and returns a value or an error
FlightFn(p) ==
    /\ pc[p] = "fn"
    /\ \/ loc' = [loc EXCEPT ![p].val = Store(loc[p].key), ![p].err = NoErr]
       \/ loc' = [loc EXCEPT ![p].val = NilView, ![p].err = "not found"]
    /\ Goto(p, "fnReturn")
    /\ UNCHANGED <<config, mainCache, hotCache, hotDetector, sfm, calls, stats, hist, nGets,
                   nSets, nDels, getterCalls, nCalls, peerCalls, store, evicted, hkAdds, pool,
                   ringLog, registry, batch>>

FlightSteps(p) == DoEnter(p) \/ FlightFn(p) \/ FnReturn(p) \/ Cleanup(p) \/ Wait(p)

InitFlight ==
    InitWith({c \in Configs : c.cacheBytes = 100 /\ ~c.hasHot /\ ~c.hasPeers})

NextFlight ==
    \/ \E p \in Procs, k \in Keys : nCalls < MaxFlightCalls /\ FlightDo(p, k)
    \/ \E p \in Procs : FlightSteps(p)

FlightFair == \A p \in Procs : WF_vars(FlightSteps(p))

SpecFlight == InitFlight /\ [][NextFlight]_vars /\ FlightFair

\* ---- concurrent Gets, the empty key among them ------------------------------
MaxKeyGets == 2

InitKeyGets ==
    InitWith({c \in Configs : c.cacheBytes = 4 /\ c.seeds = PlainSeeds
                                /\ (c.hasHot => c.warm > 0)})

NextKeyGets ==
    \/ \E p \in Procs, k \in AllKeys : nGets < MaxKeyGets /\ GetStart(p, k)
    \/ \E p \in Procs : GetSteps(p)
    \/ \E p \in Procs : PopulateSteps(p)

SpecKeyGets == InitKeyGets /\ [][NextKeyGets]_vars

\* ---- Group.gets: one goroutine per position of the key list ------------------
MaxBatchKeys == 2
BatchLists == UNION {[1..n -> AllKeys] : n \in 0..MaxBatchKeys}
ErrCanceled == "context canceled"

\* m[key] = v on a Go map kept as a set of [key, val] records
MapPut(m, k, v) == {e \in m : e.key # k} \cup {[key |-> k, val |-> v]}
MapKeys(m) == {e.key : e \in m}

\* gets up to the end of the loop of eg.Go calls; with no keys it returns at once
GetsStart(keys) ==
    /\ ~batch.active
    /\ \A p \in Procs : pc[p] = "idle"
    /\ batch' = [NoBatch EXCEPT !.active = TRUE, !.keys = keys, !.todo = 1..Len(keys),
                                !.returned = (Len(keys) = 0)]
    /\ UNCHANGED <<config, mainCache, hotCache, hotDetector, sfm, calls, stats, pc, loc, hist,
                   nGets, nSets, nDels, getterCalls, nCalls, peerCalls, store, evicted, hkAdds,
                   pool, ringLog, registry>>

\* the caller of GetsWithContext cancels its context
GetsCancel ==
    /\ batch.active /\ ~batch.returned /\ ~batch.canceled
    /\ batch' = [batch EXCEPT !.canceled = TRUE]
    /\ UNCHANGED <<config, mainCache, hotCache, hotDetector, sfm, calls, stats, pc, loc, hist,
                   nGets, nSets, nDels, getterCalls, nCalls, peerCalls, store, evicted, hkAdds,
                   pool, ringLog, registry>>

\* a goroutine may begin position i of the key list
MayGo(p, i) == batch.active /\ i \in batch.todo /\ batch.idx[p] = 0 /\ pc[p] = "idle"

\* the goroutine of position i: select takes <-ctx.Done() and records ctx.Err()
GetsDone(p, i) ==
    /\ MayGo(p, i)
    /\ batch.canceled
    /\ batch' = [batch EXCEPT !.todo = @ \ {i},
                              !.errors = MapPut(@, batch.keys[i], ErrCanceled)]
    /\ UNCHANGED <<config, mainCache, hotCache, hotDetector, sfm, calls, stats, pc, loc, hist,
                   nGets, nSets, nDels, getterCalls, nCalls, peerCalls, store, evicted, hkAdds,
                   pool, ringLog, registry>>

\* the goroutine of position i: select takes the semaphore and calls g.get
GetsGet(p, i) ==
    /\ MayGo(p, i)
    /\ GroupGet(p, batch.keys[i])
    /\ batch' = [batch EXCEPT !.todo = @ \ {i}, !.idx[p] = i, !.n[p] = nGets + 1]

\* the goroutine storing the value whether or not g.get returned an error
GetsRecordValueToo(p) ==
    /\ batch.idx[p] # 0
    /\ pc[p] = "idle"
    /\ \E h \in hist :
          /\ h.n = batch.n[p]
          /\ batch' = [batch EXCEPT
                          !.idx[p] = 0, !.n[p] = 0,
                          !.errors = IF h.err # NoErr THEN MapPut(@, h.key, h.err) ELSE @,
                          !.values = MapPut(@, h.key, h.val)]
    /\ UNCHANGED <<config, mainCache, hotCache, hotDetector, sfm, calls, stats, pc, loc, hist,
                   nGets, nSets, nDels, getterCalls, nCalls, peerCalls, store, evicted, hkAdds,
                   pool, ringLog, registry>>

\* the goroutine after g.get has returned: mu.Lock(), one of the two maps
\* gets the key, mu.Unlock()
GetsRecord(p) ==
    /\ batch.idx[p] # 0
    /\ pc[p] = "idle"
    /\ \E h \in hist :
          /\ h.n = batch.n[p]
          /\ batch' = [batch EXCEPT
                          !.idx[p] = 0, !.n[p] = 0,
                          !.errors = IF h.err # NoErr THEN MapPut(@, h.key, h.err) ELSE @,
                          !.values = IF h.err # NoErr THEN @ ELSE MapPut(@, h.key, h.val)]
    /\ UNCHANGED <<config, mainCache, hotCache, hotDetector, sfm, calls, stats, pc, loc, hist,
                   nGets, nSets, nDels, getterCalls, nCalls, peerCalls, store, evicted, hkAdds,
                   pool, ringLog, registry>>

\* eg.Wait() returns once every goroutine has ended, and gets returns the maps
GetsReturn ==
    /\ batch.active /\ ~batch.returned
    /\ batch.todo = {}
    /\ \A p \in Procs : batch.idx[p] = 0
    /\ batch' = [batch EXCEPT !.returned = TRUE]
    /\ UNCHANGED <<config, mainCache, hotCache, hotDetector, sfm, calls, stats, pc, loc, hist,
                   nGets, nSets, nDels, getterCalls, nCalls, peerCalls, store, evicted, hkAdds,
                   pool, ringLog, registry>>

\* the group of the batch: no hot tier and no peers, room for one of the keys
InitBatch == InitWith({c \in Configs : c.cacheBytes = 4 /\ ~c.hasHot /\ ~c.hasPeers})

\* the steps of g.get in such a group
BatchGetSteps(p) ==
    \/ LookupMain(p) \/ Hit(p) \/ DoEnter(p) \/ Wait(p) \/ Fn(p) \/ GetLocally(p)
    \/ LoadDetect(p) \/ FnReturn(p) \/ Cleanup(p)

NextBatch ==
    \/ \E keys \in BatchLists : GetsStart(keys)
    \/ GetsCancel
    \/ \E p \in Procs, i \in 1..MaxBatchKeys : GetsDone(p, i)
    \/ \E p \in Procs, i \in 1..MaxBatchKeys : GetsGet(p, i)
    \/ \E p \in Procs : BatchGetSteps(p)
    \/ \E p \in Procs : PopulateSteps(p)
    \/ \E p \in Procs : GetsRecord(p)
    \/ GetsReturn

SpecBatch == InitBatch /\ [][NextBatch]_vars

\* ---- the registry: newGroup and GetGroup called again and again -------------
MaxRegCalls == 3

RegNewGroup(name, bytes, getterNil, ratio) ==
    /\ nCalls' = nCalls + 1
    /\ registry' = newGroup(registry, name, bytes, getterNil, ratio)
    /\ UNCHANGED <<config, mainCache, hotCache, hotDetector, sfm, calls, stats, pc, loc,
                   hist, nGets, nSets, nDels, getterCalls, peerCalls, store, evicted, hkAdds,
                   pool, ringLog, batch>>

RegGetGroup(name) ==
    /\ nCalls' = nCalls + 1
    /\ registry' = GetGroup(registry, name)
    /\ UNCHANGED <<config, mainCache, hotCache, hotDetector, sfm, calls, stats, pc, loc,
                   hist, nGets, nSets, nDels, getterCalls, peerCalls, store, evicted, hkAdds,
                   pool, ringLog, batch>>

InitReg == InitWith({c \in Configs : c.seeds = PlainSeeds /\ c.warm = 0 /\ ~c.hasPeers})

NextReg ==
    \/ \E name \in GroupNames, bytes \in CacheBytesChoices \cup {0}, getterNil \in BOOLEAN,
          ratio \in HotRatios :
          nCalls < MaxRegCalls /\ RegNewGroup(name, bytes, getterNil, ratio)
    \/ \E name \in GroupNames : nCalls < MaxRegCalls /\ RegGetGroup(name)

SpecReg == InitReg /\ [][NextReg]_vars

\* =========================================================================
\* Properties of the byte budget and of the shard's byte count
\* =========================================================================
\* populateCache returns in this step: its loop condition was found false
PopulateReturns(p) == pc[p] = "evictCheck" /\ pc'[p] \notin {"evictCheck", "evict"}

\* C4: whenever a populateCache call returns on a group with cacheBytes > 0,
\* the bytes of mainCache and hotCache together are within cacheBytes.
C4_SharedBudget ==
    [][\A p \in Procs :
          (cacheBytes > 0 /\ PopulateReturns(p)) =>
              cacheBytesOf(mainCache) + cacheBytesOf(hotCache) <= cacheBytes]_vars

\* C5: after any sequence of add, get, remove and removeOldest on a shard,
\* nbytes is the sum of len(key)+value.Len() over the entries it holds in
\* History and Resident.
C5_ShardBytes == cacheBytesOf(mainCache) = HeldBytes(mainCache)

\* =========================================================================
\* Properties of concurrent Gets
\* =========================================================================
\* the cache can hold every key of the model at once
Roomy == cacheBytes >= 6
GetterCount(k) == Cardinality({r \in getterCalls : r.key = k})
GetterSucceeds == \A r \in getterCalls : r.err = NoErr
\* positions of a goroutine inside the fn that load hands to Do
FnLabels == {"fn", "peerGet", "peerLoaded", "getLocally", "loadDetect", "fnReturn"}
InFn(p) ==
    /\ loc[p].call # 0
    /\ \/ pc[p] \in FnLabels
       \/ pc[p] \in {"populate", "evictCheck", "evict"}

\* C1: on a group without peers whose cache can hold every key and whose
\* Getter never fails, the Getter is invoked exactly once per key however
\* the Gets for that key interleave: never more than once, and once when
\* the Gets have all returned.
C1_GetterOnce ==
    (Roomy /\ ~hasPeers /\ GetterSucceeds) =>
        \A k \in Keys :
            /\ GetterCount(k) <= 1
            /\ ((\A p \in Procs : pc[p] = "idle") /\ (\E h \in hist : h.key = k)) =>
                   GetterCount(k) = 1

\* C2: for every key at most one goroutine is inside the fn of Do at a time.
C2_MutualExclusion ==
    \A p, q \in Procs : (p # q /\ InFn(p) /\ InFn(q)) => loc[p].key # loc[q].key
\* one caller is inside fn while another waits on the same call
C2_Witness ==
    \E p, q \in Procs : InFn(p) /\ pc[q] = "wait" /\ loc[q].call = loc[p].call

\* C3: a Get that went through Do, as the executor or as a waiter, returned
\* the (value, err) pair that the fn of its call returned.
C3_ResultSharing ==
    \A h \in hist :
        h.via \in {"loader", "waiter"} =>
            /\ calls[h.call].done
            /\ h.val = calls[h.call].val
            /\ h.err = calls[h.call].err
\* an executor and a waiter of one call have both returned its value
C3_Witness ==
    \E h1, h2 \in hist :
        /\ h1.via = "loader" /\ h2.via = "waiter"
        /\ h1.call = h2.call
        /\ h2.val # NilView

\* C6: a Get that returns without error returns the value the load produces
\* for its key, whether it ran the load, waited for it or hit the cache; so
\* all successful Gets of one key return equal bytes.
C6_DeliversLoadValue ==
    /\ \A h \in hist : h.err = NoErr => h.val = Store(h.key)
    /\ \A h1, h2 \in hist :
          (h1.key = h2.key /\ h1.err = NoErr /\ h2.err = NoErr) => h1.val = h2.val
\* one Get loaded a key and another was served the same key from the cache
C6_Witness ==
    \E h1, h2 \in hist :
        /\ h1.key = h2.key
        /\ h1.via = "loader" /\ h1.err = NoErr
        /\ h2.via = "hit" /\ h2.val # NilView

\* C9: when the Getter fails in a load, the Get that ran the load and every
\* Get that waited on its call return the Getter's error and no value.
C9_ErrorShared ==
    \A r \in getterCalls : \A h \in hist :
        (r.err # NoErr /\ h.call = r.call) => (h.err = r.err /\ h.val = NilView)
\* the executor and a waiter of a failed load have both returned
C9_Witness ==
    \E r \in getterCalls : \E h1, h2 \in hist :
        /\ r.err # NoErr
        /\ h1.call = r.call /\ h1.via = "loader"
        /\ h2.call = r.call /\ h2.via = "waiter"

\* what a shard holds: its byte count and the keys of its entries
ShardContent(c) == <<cacheBytesOf(c), CacheKeys(c)>>

\* C10: a Get that returns an error has added nothing to a shard, and a
\* step changes the bytes or the keys of a shard only on behalf of an
\* operation that is marked as having added to one.
C10_NoAdmissionOnFailure ==
    [][/\ \A h \in hist' \ hist : h.err # NoErr => ~h.admitted
       /\ (\/ ShardContent(mainCache') # ShardContent(mainCache)
           \/ ShardContent(hotCache') # ShardContent(hotCache))
             => \E p \in Procs : pc'[p] # pc[p] /\ loc'[p].admitted]_vars
\* a failed Get has returned and the shards hold nothing
C10_Witness ==
    /\ \E h \in hist : h.err \in GetterErrs /\ h.via = "loader"
    /\ \A p \in Procs : pc[p] = "idle"
    /\ CacheKeys(mainCache) = {} /\ CacheKeys(hotCache) = {}
    /\ cacheBytesOf(mainCache) = 0 /\ cacheBytesOf(hotCache) = 0

\* =========================================================================
\* Properties of sequential Gets
\* =========================================================================
\* C7: of two sequential Gets of one key on a group whose cache can hold
\* every key, the second is served from the cache with the value of the
\* first, and without peers the Getter has run exactly once for the key.
C7_Idempotence ==
    \A h1, h2 \in hist :
        (Roomy /\ h1.key = h2.key /\ h1.n < h2.n /\ h1.err = NoErr) =>
            /\ h2.via = "hit" /\ h2.err = NoErr
            /\ h2.val = h1.val
            /\ (~hasPeers /\ GetterSucceeds) => GetterCount(h1.key) = 1
\* the first Get loaded the key, the second hit the cache
C7_Witness ==
    \E h1, h2 \in hist :
        /\ Roomy /\ ~hasPeers
        /\ h1.n = 1 /\ h2.n = 2 /\ h1.key = h2.key
        /\ h1.via = "loader" /\ h1.err = NoErr
        /\ h2.via = "hit"

\* n sequential Gets of key k have all returned, each without error
AllReturned(k) ==
    /\ nGets >= 1
    /\ \A p \in Procs : pc[p] = "idle"
    /\ Cardinality(hist) = nGets
    /\ \A h \in hist : h.key = k /\ h.err = NoErr

\* C8: after n >= 1 sequential successful Gets of one key on a single node
\* whose cache can hold it, Gets = n, CacheHits = n - 1 and LocalLoads = 1.
C8_Stats ==
    \A k \in Keys :
        (Roomy /\ ~hasPeers /\ AllReturned(k)) =>
            /\ stats.Gets = nGets
            /\ stats.CacheHits = nGets - 1
            /\ stats.LocalLoads = 1
\* three Gets of one key have returned
C8_Witness == Roomy /\ ~hasPeers /\ nGets = 3 /\ \E k \in Keys : AllReturned(k)

\* the Getter ran inside call c
GetterRan(c) == \E r \in getterCalls : r.call = c
\* every Get of h's key that was started before h has failed
AllFailedBefore(h) ==
    /\ \E g \in hist : g.key = h.key /\ g.n < h.n
    /\ \A g \in hist : (g.key = h.key /\ g.n < h.n) => g.err # NoErr

\* C11: a Get that follows only failed Gets of its key runs a load of its
\* own, in a call none of them used, and that load invokes the Getter
\* again unless a peer supplied the value.
C11_NoNegativeCaching ==
    \A h \in hist :
        AllFailedBefore(h) =>
            /\ h.via = "loader"
            /\ \A g \in hist : (g.key = h.key /\ g.n < h.n) => g.call < h.call
            /\ GetterRan(h.call) \/ (hasPeers /\ h.err = NoErr)
\* a Get failed, the next Get of the key ran the Getter again and succeeded
C11_Witness ==
    \E g, h \in hist :
        /\ g.key = h.key /\ g.n = 1 /\ h.n = 2
        /\ g.err # NoErr
        /\ h.err = NoErr /\ GetterRan(h.call)

\* =========================================================================
\* Properties of peer loads
\* =========================================================================
\* the calls in which peer.Get failed
PeerFailed == {r.call : r \in {x \in peerCalls : x.err # NoErr}}

\* C12: a failed peer.Get is counted once in PeerErrors and the same call
\* goes on to the local Getter; every Get served by that call returns what
\* the Getter returned, and no Get ever returns the peer's error.
C12_PeerFailureDegrades ==
    /\ stats.PeerErrors = Cardinality(PeerFailed)
    /\ \A h \in hist : h.err \notin PeerErrs
    /\ \A p \in Procs :
          (loc[p].call \in PeerFailed /\ pc[p] # "wait") =>
              (pc[p] = "getLocally" \/ GetterRan(loc[p].call))
    /\ \A h \in hist :
          h.call \in PeerFailed =>
              \E r \in getterCalls :
                  /\ r.call = h.call
                  /\ h.err = r.err
                  /\ (h.err = NoErr) = (r.err = NoErr)
\* after a failed peer.Get one Get succeeded and another got the Getter's error
C12_Witness ==
    \E h1, h2 \in hist :
        /\ h1.call \in PeerFailed /\ h1.err = NoErr /\ h1.val = Store(h1.key)
        /\ h2.call \in PeerFailed /\ h2.err \in GetterErrs

\* =========================================================================
\* Properties of a group with caching disabled
\* =========================================================================
\* the calls in which peer.Get succeeded
PeerServed == {r.call : r \in {x \in peerCalls : x.err = NoErr}}

\* C13: on a group with cacheBytes = 0 both shards stay empty with nbytes 0
\* through any sequence of Gets and Sets, no Get is a cache hit, and every
\* Get runs a load that invokes the Getter unless a peer supplies the value.
C13_CachingDisabled ==
    cacheBytes = 0 =>
        /\ CacheKeys(mainCache) = {} /\ CacheKeys(hotCache) = {}
        /\ cacheBytesOf(mainCache) = 0 /\ cacheBytesOf(hotCache) = 0
        /\ stats.CacheHits = 0
        /\ \A h \in hist :
              /\ h.via = "loader"
              /\ GetterRan(h.call) \/ h.call \in PeerServed
        /\ (~hasPeers /\ \A p \in Procs : pc[p] = "idle") =>
               Cardinality(getterCalls) = nGets
\* caching is disabled, a Sets item ran and two Gets of its key both loaded
C13_Witness ==
    /\ cacheBytes = 0 /\ hasHot /\ ~hasPeers
    /\ nSets = 1 /\ nGets = 2
    /\ \A p \in Procs : pc[p] = "idle"
    /\ \E h1, h2 \in hist :
          /\ h1.n = 1 /\ h2.n = 2 /\ h1.key = h2.key
          /\ h1.err = NoErr /\ h2.err = NoErr
          /\ IsHot(hotDetector, h1.key)

\* =========================================================================
\* Properties of the two tiers of a group
\* =========================================================================
\* the keys held by both shards at once
InBothTiers == CacheKeys(mainCache) \cap CacheKeys(hotCache)

\* C14: in every reachable state a key is present in at most one of
\* mainCache and hotCache.
C14_TierExclusivity == InBothTiers = {}


\* the process is inside the populateCache call made by getFromPeer
PopulatesPeerValue(p) == pc[p] = "populate" /\ loc[p].ret = "peerLoaded"

\* C15: a value fetched from a remote peer is never admitted into mainCache;
\* the populateCache call of getFromPeer leaves mainCache as it was.
C15_PlacementByRole ==
    [][\A p \in Procs :
          (PopulatesPeerValue(p) /\ pc'[p] # "populate") => mainCache' = mainCache]_vars


\* C16: when populateCache has added a new key whose entry fits in cacheBytes
\* and returns after evicting, the key it populated is still in the shard,
\* whatever History and Resident held before.
C16_NewcomerKept ==
    [][\A p \in Procs :
          (/\ PopulateReturns(p)
           /\ loc[p].fresh
           /\ KeyLen(loc[p].key) + ViewLen(loc[p].val) <= cacheBytes)
             => loc[p].key \in CacheKeys(IF loc[p].target = "hot" THEN hotCache'
                                         ELSE mainCache')]_vars

\* =========================================================================
\* Properties of the LRU-K store
\* =========================================================================
\* C17: a key of the store is in History exactly while its access count is
\* below K and in Resident once the count has reached K, for every K >= 1.
C17_Promotion ==
    \A k \in StoreKeys :
        /\ k \in store.history => store.accessCount[k] < store.k
        /\ k \in store.cache => store.accessCount[k] >= store.k


\* the keys of a list, and whether it holds no key twice
NoDuplicates(l) == Cardinality(ListKeys(l)) = Len(l)

\* C18: after any sequence of Add, Get, Remove, RemoveOldest and Clear no key
\* is in both History and Resident, and each tier's map holds exactly the
\* keys of that tier's list, each once.
C18_IndexConsistency ==
    /\ store.cache \cap store.history = {}
    /\ ListKeys(store.cacheList) = store.cache
    /\ ListKeys(store.historyList) = store.history
    /\ NoDuplicates(store.cacheList) /\ NoDuplicates(store.historyList)
\* a Clear has just emptied a store of three keys, after five earlier calls
C18_Witness ==
    /\ store.cache = {} /\ store.history = {}
    /\ Len(evicted) = 3 /\ nCalls = 6


\* maxHistorySize of enforceMaxEntries
MaxHistorySize(c) == IF c.maxEntries \div 2 < 1 THEN 1 ELSE c.maxEntries \div 2

\* C19: a store with maxEntries > 0 holds at most max(1, maxEntries/2) keys
\* in History and at most maxEntries keys in both tiers together, after
\* every call.
C19_SizeBounds ==
    store.maxEntries > 0 =>
        /\ Len(store.historyList) <= MaxHistorySize(store)
        /\ LRULen(store) <= store.maxEntries

\* an Add of a third key has just trimmed History of a store with maxEntries 4
\* to its limit of two keys (a Remove would have cleared the access count, a
\* RemoveOldest would have needed three keys in History)
C19_Witness ==
    /\ store.maxEntries = 4 /\ store.cache = {}
    /\ Len(store.historyList) = 2 /\ Len(evicted) = 1
    /\ evicted[1].key \notin store.history
    /\ store.accessCount[evicted[1].key] >= 1


\* the list l without its last element
Front(l) == SubSeq(l, 1, Len(l) - 1)

\* C20: RemoveOldest on a non-empty store removes exactly one entry, the back
\* of History if History is non-empty and otherwise the back of Resident, and
\* passes it to OnEvicted; on an empty store it changes nothing and calls no
\* callback.
C20_RemoveOldest ==
    [][StoreRemoveOldest =>
         /\ store'.maxEntries = store.maxEntries /\ store'.k = store.k
         /\ IF Len(store.historyList) > 0
            THEN /\ evicted' = <<Back(store.historyList)>>
                 /\ store'.historyList = Front(store.historyList)
                 /\ store'.history = store.history \ {Back(store.historyList).key}
                 /\ store'.cacheList = store.cacheList /\ store'.cache = store.cache
            ELSE IF Len(store.cacheList) > 0
            THEN /\ evicted' = <<Back(store.cacheList)>>
                 /\ store'.cacheList = Front(store.cacheList)
                 /\ store'.cache = store.cache \ {Back(store.cacheList).key}
                 /\ store'.historyList = <<>> /\ store'.history = {}
            ELSE store' = store /\ evicted' = <<>>]_vars
\* RemoveOldest has just taken the back of Resident, History being empty, and
\* left another key in Resident (Remove and Clear would have cleared the
\* access count, Add never evicts from Resident)
C20_Witness ==
    /\ store.k = 2 /\ store.history = {} /\ store.cache # {}
    /\ Len(evicted) = 1
    /\ evicted[1].key \notin store.cache
    /\ store.accessCount[evicted[1].key] >= 2


\* C21: in a store with K = 2 and maxEntries = 4 a key that is in Resident
\* stays in Resident through every Add of another key, so a Get of it still
\* hits afterwards.
C21_ScanResistance ==
    [][\A h \in store.cache :
          (\E k \in ScanKeys \ {h} : StoreAdd(k, ScanValue)) =>
              /\ h \in store'.cache
              /\ LRUGet(store', h).ok]_vars
\* a scan has filled History and its last Add evicted an earlier scan key,
\* while four promoted keys are in Resident
C21_Witness ==
    /\ store.k = 2 /\ store.maxEntries = 4
    /\ Len(store.cacheList) = 4
    /\ Len(evicted) = 1
    /\ evicted[1].key \notin store.cache

\* =========================================================================
\* Properties of the HeavyKeeper
\* =========================================================================
\* C22: a key that has been passed to Add fewer than minCount times is not
\* hot, whatever Adds of other keys and decay passes have happened.
C22_NoFalsePositive ==
    \A k \in Keys : hkAdds[k] < hkMinCount => ~IsHot(hotDetector, k)

\* =========================================================================
\* Properties of the order of a Get and the load that serves it
\* =========================================================================
\* the results that process p returns in this step
Returned(p) == {h \in hist' \ hist : pc[p] # "idle" /\ h.n = loc[p].n}

\* C23 as stated: every successful Get returns a value found in the cache or
\* the value of a load that was invoked at or after the Get's entry.
C23_LoadAfterEntry ==
    [][\A p \in Procs : \A h \in Returned(p) :
          h.err = NoErr => (h.via = "hit" \/ h.call # loc[p].seen)]_vars

\* C23 amended: every successful Get returns a value found in the cache, or
\* the value of the load it ran itself, invoked after its entry, or the value
\* of the call for its key that it joined in Do, whose load may have been
\* invoked before the Get's entry.
C23_LoadOrJoinedCall ==
    [][\A p \in Procs : \A h \in Returned(p) :
          h.err = NoErr =>
             \/ h.via = "hit"
             \/ h.via = "loader" /\ LoadBegan(h.call) /\ h.call # loc[p].seen
             \/ /\ h.via = "waiter"
                /\ calls[h.call].done /\ h.val = calls[h.call].val
                /\ \E r \in getterCalls \cup peerCalls : r.call = h.call /\ r.key = h.key]_vars
\* a waiter is about to return the value of a load that had been invoked
\* before the waiter's Get began
C23_Witness ==
    \E p \in Procs :
        /\ pc[p] = "wait" /\ loc[p].seen # 0 /\ loc[p].call = loc[p].seen
        /\ calls[loc[p].call].done /\ calls[loc[p].call].err = NoErr

\* =========================================================================
\* Properties of the peer picker
\* =========================================================================
\* the elements of a list
Range(l) == {l[i] : i \in 1..Len(l)}

\* two virtual nodes of different peers have one hash
CrossTies(ring) ==
    \E i, j \in 1..Len(ring) : ring[i].hash = ring[j].hash /\ ring[i].peer # ring[j].peer

NoPeersState == ~hasPeers \/ pool.kind = "nopeers" \/ RingIsEmpty(pool.peers)

\* C25: while the group has no picker, or its picker is NoPeers or an HTTPPool
\* with an empty ring, PickPeer answers false for every key and fn goes on
\* to the local Getter.
C25_NoPeersLocal ==
    [][NoPeersState =>
          /\ \A k \in Keys : hasPeers => PickPeerOk(pool, k) = {FALSE}
          /\ \A p \in Procs : Fn(p) => pc'[p] = "getLocally"]_vars

\* a load goes to the Getter on a pool whose peers were set to none
C25_Witness ==
    /\ hasPeers /\ pool.kind = "http"
    /\ nCalls = 1 /\ RingIsEmpty(pool.peers)
    /\ \E p \in Procs : pc[p] = "getLocally" /\ loc[p].n = 2

\* =========================================================================
\* C26
\* C26: a call of newGroup with a registered name panics and leaves the
\* registry as it was, an entry of the registry never changes once made, and
\* GetGroup of a registered name returns the group first registered under it.
C26_UniqueNames ==
    [][\A n \in GroupNames :
          registry.groups[n] # NoGroup =>
             /\ registry'.groups[n] = registry.groups[n]
             /\ (registry'.last.op = "newGroup" /\ registry'.last.name = n)
                   => (registry'.last.panic # "" /\ registry'.groups = registry.groups)
             /\ (registry'.last.op = "GetGroup" /\ registry'.last.name = n)
                   => registry'.last.ret = registry.groups[n]]_vars

\* newGroup was called with the name of the first group and a getter and
\* panicked; another group was registered before
C26_Witness ==
    /\ registry.last.op = "newGroup" /\ registry.last.name = GroupName
    /\ registry.last.panic = "duplicate registration of group"
    /\ registry.groups[GroupName].id = 1
    /\ registry.groups["h"].id = 2

\* =========================================================================
\* C27
\* C27: when Deletes returns, no other operation having run since it began,
\* its error map is empty and none of its keys is in mainCache or hotCache.
C27_DeletesBestEffort ==
    [][\A p \in Procs :
          (DeletesHot(p) /\ pc'[p] = "idle") =>
             /\ loc[p].errs = {}
             /\ \A i \in 1..Len(loc[p].keys) :
                   /\ loc[p].keys[i] \notin CacheKeys(mainCache')
                   /\ loc[p].keys[i] \notin CacheKeys(hotCache')]_vars

\* Deletes of two different keys is about to remove the second, which is in
\* the hot cache, and has removed the first; the other key is in no cache
C27_Witness ==
    \E p \in Procs :
       /\ pc[p] = "deletesHot" /\ loc[p].rest = <<>>
       /\ Len(loc[p].keys) = 2 /\ loc[p].keys[1] # loc[p].keys[2]
       /\ loc[p].key \in CacheKeys(hotCache)
       /\ loc[p].keys[1] \notin CacheKeys(mainCache) \cup CacheKeys(hotCache)

\* =========================================================================
\* C28
\* the entries of shard c, in either queue, that have key k
EntriesOf(c, k) ==
    Len(SelectSeq(c.lru.cacheList \o c.lru.historyList, LAMBDA e : e.key = k))

\* C28: when concurrent Gets for one key, begun on a cache that can hold every
\* key and all missing the lookup, have all returned a value, mainCache
\* holds one entry for the key and its nbytes is len(key)+len(value).
C28_NoDoubleCounting ==
    \A k \in Keys :
        (/\ Roomy
         /\ \A p \in Procs : pc[p] = "idle"
         /\ nGets >= 2 /\ Cardinality(hist) = nGets
         /\ \A h \in hist : h.key = k /\ h.via # "hit" /\ h.err = NoErr)
        => /\ EntriesOf(mainCache, k) = 1
           /\ cacheBytesOf(mainCache) = KeyLen(k) + ViewLen(Store(k))

\* =========================================================================
\* C29
\* C29: a Do call that joins a call for its key joins one whose fn has not
\* returned yet; it never takes the result of an fn that returned before the
\* Do call began.
C29_WindowClosed ==
    [][\A p \in Procs :
          (DoEnter(p) /\ pc'[p] = "wait") => ~calls[loc'[p].call].done]_vars

\* =========================================================================
\* C30
\* C30: the loop of populateCache never spins: it is never about to call
\* removeOldest on a shard that is empty while the shard's nbytes is above
\* cacheBytes (the call would change nothing and the loop would go on).
C30_NoSpinOnEmpty ==
    \A p \in Procs :
        pc[p] = "evict" =>
            (cacheItems(Target(p)) > 0 \/ cacheBytesOf(Target(p)) <= cacheBytes)

\* =========================================================================
\* C31
\* C31: under a fair scheduler every goroutine that has entered Do, as the
\* one running fn or as a waiter, eventually returns from it, and whenever
\* no Get is in progress the in-flight map holds no record for any key.
C31_FlightLiveness ==
    /\ \A p \in Procs : (pc[p] \in {"fn", "wait"}) ~> (pc[p] = "idle")
    /\ []((\A p \in Procs : pc[p] = "idle") => \A k \in Keys : sfm[k] = 0)

\* a waiter is blocked on a call whose fn is still running
C31_Witness ==
    \E p, q \in Procs :
       /\ pc[p] = "wait" /\ ~calls[loc[p].call].done
       /\ q # p /\ pc[q] = "fn" /\ loc[q].call = loc[p].call
       /\ Len(calls) = 2

\* =========================================================================
\* C32
\* C32: every pass of populateCache's eviction loop takes the oldest entry
\* from hotCache when hotCache.bytes > mainCache.bytes/8 and from mainCache
\* otherwise, whichever shard the new entry went to.
C32_VictimRule ==
    [][\A p \in Procs :
          Evict(p) =>
             IF cacheBytesOf(hotCache) > cacheBytesOf(mainCache) \div 8
             THEN hotCache' = cacheRemoveOldest(hotCache) /\ mainCache' = mainCache
             ELSE mainCache' = cacheRemoveOldest(mainCache) /\ hotCache' = hotCache]_vars

\* =========================================================================
\* C33
\* C33: a Get that returns from the local cache, whether it found the key in
\* mainCache or in hotCache, adds exactly one to CacheHits and has recorded
\* exactly one access for its key in the hot detector (when the group has
\* one).
C33_HitRecorded ==
    [][\A p \in Procs :
          (pc[p] = "hit" /\ pc'[p] = "idle") =>
             /\ stats'.CacheHits = stats.CacheHits + 1
             /\ hasHot => loc[p].adds = 1]_vars

\* =========================================================================
\* C34
\* C34: LocalLoads counts the Getter invocations that returned a value and
\* LocalLoadErrs those that returned an error, so that their sum is the
\* number of Getter invocations and a failed load leaves LocalLoads alone.
C34_LocalLoadCounters ==
    /\ stats.LocalLoads = Cardinality({r \in getterCalls : r.err = NoErr})
    /\ stats.LocalLoadErrs = Cardinality({r \in getterCalls : r.err # NoErr})
    /\ stats.LocalLoads + stats.LocalLoadErrs = Cardinality(getterCalls)

\* =========================================================================
\* C35
\* C35 as stated: whenever no Get is in progress, Loads = Gets - CacheHits,
\* Gets that were rejected for an empty key included.
NoGetInProgress == \A p \in Procs : pc[p] = "idle"
RejectedGets == Cardinality({h \in hist : h.via = "reject"})
StoreEntries(c) ==
    {c.cacheList[i] : i \in 1..Len(c.cacheList)}
        \cup {c.historyList[i] : i \in 1..Len(c.historyList)}
\* the entries of the set held that are gone from the store after the step
EntriesGone(held) == {e \in held : e.key \notin store'.cache \cup store'.history}
EvictedExactly(held) ==
    /\ Len(evicted') = Cardinality(EntriesGone(held))
    /\ {evicted'[i] : i \in 1..Len(evicted')} = EntriesGone(held)
C36_EvictionCallback ==
    [][/\ \A k \in StoreKeys, v \in SetValues :
             StoreAdd(k, v) =>
                /\ EvictedExactly({e \in StoreEntries(store) : e.key # k} \cup {kEntry(k, v)})
                /\ k \in store.cache \cup store.history => evicted' = <<>>
       /\ (\E k \in StoreKeys : StoreRemove(k)) \/ StoreRemoveOldest \/ StoreClear
             => EvictedExactly(StoreEntries(store))
       /\ (\E k \in StoreKeys : StoreGet(k))
             => evicted' = <<>> /\ StoreEntries(store') = StoreEntries(store)]_vars

\* Clear has reported two entries, or an Add has pushed two entries out
C36_Witness ==
    /\ Len(evicted) = 2
    /\ evicted[1].key # evicted[2].key
    /\ store.cache = {}

\* =========================================================================
\* C37
\* C37: Get(key) reports a hit exactly when the key is in History or in
\* Resident and returns the value stored for it, which is the value of the
\* key's most recent Add (an Add leaves its value with the key, and no call
\* but an Add of the key changes the value of a key that stays); Get never
\* changes a stored value, and a miss changes nothing, access counts
\* included.
StoredValue(c, k) ==
    IF k \in ListKeys(c.cacheList) THEN ListFind(c.cacheList, k).value
    ELSE ListFind(c.historyList, k).value
StoredKeys(c) == ListKeys(c.cacheList) \cup ListKeys(c.historyList)
C37_GetSemantics ==
    [][/\ \A k \in StoreKeys :
             StoreGet(k) =>
                LET r == LRUGet(store, k)
                IN /\ r.ok <=> k \in StoredKeys(store)
                   /\ r.ok => r.value = StoredValue(store, k)
                   /\ StoreEntries(store') = StoreEntries(store)
                   /\ ~r.ok => store' = store /\ evicted' = <<>>
       /\ \A k \in StoreKeys, v \in SetValues :
             StoreAdd(k, v) =>
                /\ k \in StoredKeys(store') => StoredValue(store', k) = v
                /\ \A j \in StoredKeys(store') \ {k} :
                      j \in StoredKeys(store) /\ StoredValue(store', j) = StoredValue(store, j)
       /\ (\E k \in StoreKeys : StoreRemove(k)) \/ StoreRemoveOldest \/ StoreClear
             => \A j \in StoredKeys(store') :
                   j \in StoredKeys(store) /\ StoredValue(store', j) = StoredValue(store, j)]_vars

\* a second access has promoted "a" with the value of its Add (an Add and a
\* Get of "a" on a store with K = 2 end here), another key waits in History
C37_Witness ==
    /\ store.k = 2
    /\ store.cache = {"a"}
    /\ StoredValue(store, "a") = <<9, 9, 9>>
    /\ store.accessCount["a"] = 2
    /\ store.history = {"cf"}
    /\ store.accessCount["cf"] = 1
    /\ nCalls = 3

\* =========================================================================
\* C38
\* C38: the count that Add(key) gives to the top-K update is the minimum
\* counter over the rows whose bucket holds the key's fingerprint after the
\* row updates, and 0 when no row does, so that such a key does not enter
\* the top-K.
C38_Estimate ==
    [][\A k \in Keys :
          HKAdd(k) =>
             LET rows == [hotDetector' EXCEPT !.hotKeys = hotDetector.hotKeys,
                                              !.hotKeyMap = hotDetector.hotKeyMap]
             IN hotDetector' = updateHotKeys(rows, k, getCount(hotDetector', k))]_vars

\* =========================================================================
\* C39
\* C39: after any sequence of Add and decay every HeapItem's index is its
\* position in the heap array, hotKeyMap holds exactly the keys of the heap,
\* the heap has at most topK items and its root has the least count.
C39_HeapIntegrity ==
    LET h == hotDetector.hotKeys
    IN /\ \A p \in 1..Len(h) : h[p].index = p - 1
       /\ hotDetector.hotKeyMap = {h[p].key : p \in 1..Len(h)}
       /\ \A p, q \in 1..Len(h) : h[p].key = h[q].key => p = q
       /\ Len(h) <= hkTopK
       /\ \A p \in 1..Len(h) : h[1].count <= h[p].count

\* =========================================================================
\* C40
\* C40 as stated: when gets returns, every key of the input list is in
\* exactly one of the two result maps, repeated keys included.
InValues(k) == k \in MapKeys(batch.values)
InErrors(k) == k \in MapKeys(batch.errors)
BatchKeys == {batch.keys[i] : i \in 1..Len(batch.keys)}
C40_Partition ==
    batch.returned => \A k \in BatchKeys : InValues(k) # InErrors(k)

\* C40 amended: when gets returns, every key of the input list is in at
\* least one of the two result maps and no other key is in either; a key that
\* occurs once in the list is in exactly one of them, a key that occurs
\* several times may be in both.
OccursOnce(k) == Cardinality({i \in 1..Len(batch.keys) : batch.keys[i] = k}) = 1
C40_PartitionAmended ==
    batch.returned =>
       /\ \A k \in BatchKeys : InValues(k) \/ InErrors(k)
       /\ MapKeys(batch.values) \cup MapKeys(batch.errors) \subseteq BatchKeys
       /\ \A k \in BatchKeys : OccursOnce(k) => ~(InValues(k) /\ InErrors(k))

\* gets has returned for two different keys after a cancellation: one
\* goroutine found the context done, the other fetched its key
C40_Witness ==
    /\ batch.returned
    /\ batch.keys = <<"a", "cf">>
    /\ batch.canceled
    /\ batch.errors = {[key |-> "a", val |-> ErrCanceled]}
    /\ MapKeys(batch.values) = {"cf"}

====
